---- MODULE Spec2Model ----
(***************************************************************************)
(* File-management REST API over an object store (S3) and a key-value      *)
(* metadata table (DynamoDB): request handlers, error middleware, metadata *)
(* service, file transfer service; and the state hook of the plan viewer   *)
(* in the browser.  Strings that the code inspects character by character  *)
(* (file names, project names, error names) are sequences of one-character *)
(* strings; table items are functions from attribute names to values, an   *)
(* absent attribute being absent from the item's DOMAIN.                   *)
(***************************************************************************)
EXTENDS Integers, Sequences, FiniteSets, TLC

(***************************************************************************)
(* Bounds of the model                                                     *)
(***************************************************************************)
\* largest value of the wall clock (new Date()) the model lets time reach
MaxClock == 1
\* largest absolute value the model lets a project's fileCount reach
MaxCount == 2
\* the longest file name of the requests of SpecName
MaxNameLen == 3
\* the most entries the model lets the viewer's log hold
MaxLogs == 2
\* the most timers the model lets the viewer set
MaxTimers == 3
\* the latest time, in milliseconds, the model lets the browser's clock reach
MaxTime == 900

(***************************************************************************)
(* Program constants                                                       *)
(***************************************************************************)
\* S3_CONFIG.presignedUrlExpiry default
PresignedUrlExpiry == 3600
\* S3_CONFIG.maxFileSize default
MaxFileSize == 104857600
\* sanitizeFileName: .substring(0, 200)
MaxSanitizedLen == 200
\* createProject: name.length > 100
MaxProjectNameLen == 100
\* listFiles, listProjects: parseInt(limit, 10) || 50
DefaultLimit == 50
\* listFiles, listProjects: Math.min(..., 100)
MaxLimit == 100

(***************************************************************************)
(* Identifiers and request inputs                                          *)
(***************************************************************************)
\* the caller of the concurrent file requests of Spec
Callers == {"u1"}
Pids == {"p1"}
Fids == {"f1"}
\* the requests that may be in flight (between two awaits) at the same time
Slots == {1, 2}

\* upload request bodies a client may send: a valid one, and one that breaks
\* each rule of validateUploadRequest
ValidName == <<"d", "/", "A", " ", ".", "P">>
UploadBodies ==
    { [fileName |-> ValidName, fileType |-> "image/png", fileSize |-> 3],
      [fileName |-> << >>, fileType |-> "image/png", fileSize |-> 3],
      [fileName |-> <<" ">>, fileType |-> "image/png", fileSize |-> 3],
      [fileName |-> ValidName, fileType |-> "", fileSize |-> 3],
      [fileName |-> ValidName, fileType |-> "application/x-sh", fileSize |-> 3],
      [fileName |-> ValidName, fileType |-> "image/png", fileSize |-> 0],
      [fileName |-> ValidName, fileType |-> "image/png", fileSize |-> -1],
      [fileName |-> ValidName, fileType |-> "image/png", fileSize |-> 104857601] }
AllowedMimeTypes ==
    {"image/jpeg", "image/png", "image/gif", "image/webp", "image/svg+xml",
     "application/pdf", "application/msword",
     "application/vnd.openxmlformats-officedocument.wordprocessingml.document",
     "application/vnd.ms-excel",
     "application/vnd.openxmlformats-officedocument.spreadsheetml.sheet",
     "application/vnd.ms-powerpoint",
     "application/vnd.openxmlformats-officedocument.presentationml.presentation",
     "text/plain", "text/csv", "text/html", "text/css", "text/javascript",
     "application/json", "application/zip", "application/x-rar-compressed",
     "application/gzip", "video/mp4", "video/webm", "video/quicktime",
     "audio/mpeg", "audio/wav", "audio/ogg"}
\* project names a client may send
ProjectNames == { <<"a">>, <<" ">>, << >> }

\* an error a collaborator call may end with, other than the ones the code
\* tells apart (NotFound of HeadObject, ConditionalCheckFailedException)
CollabErrors == {"ThrottlingException"}
\* the call succeeds
NoFault == "none"

(***************************************************************************)
(* Strings                                                                 *)
(***************************************************************************)
\* the characters of the regular expression class [a-zA-Z0-9._-] among the
\* characters the model uses
SafeChars == {"a", "d", "p", "A", "P", "1", ".", "_", "-"}

ToLowerChar(c) == CASE c = "A" -> "a" [] c = "P" -> "p" [] c = "D" -> "d" [] OTHER -> c

\* String.prototype.toLowerCase
ToLowerCase(s) == [i \in 1..Len(s) |-> ToLowerChar(s[i])]

\* String.prototype.trim, the blank being the only white space of the model
RECURSIVE TrimLeft(_)
TrimLeft(s) == IF s # << >> /\ Head(s) = " " THEN TrimLeft(Tail(s)) ELSE s
RECURSIVE TrimRight(_)
TrimRight(s) == IF s # << >> /\ s[Len(s)] = " " THEN TrimRight(SubSeq(s, 1, Len(s) - 1)) ELSE s
Trim(s) == TrimRight(TrimLeft(s))

Digits == {"0", "1", "2", "5"}
DigitValue(c) == CASE c = "0" -> 0 [] c = "1" -> 1 [] c = "2" -> 2 [] c = "5" -> 5

\* the value of the digits at the head of s, after the digits worth acc
RECURSIVE LeadingDigits(_, _)
LeadingDigits(s, acc) ==
    IF s # << >> /\ Head(s) \in Digits
    THEN LeadingDigits(Tail(s), 10 * acc + DigitValue(Head(s)))
    ELSE acc

\* parseInt(s, 10): << >> for NaN, else the integer read from the head of s
\* (white space skipped, an optional sign, then at least one digit)
parseInt(s) ==
    LET t == TrimLeft(s)
        neg == t # << >> /\ Head(t) = "-"
        u == IF t # << >> /\ Head(t) \in {"-", "+"} THEN Tail(t) ELSE t
    IN  IF u = << >> \/ Head(u) \notin Digits THEN << >>
        ELSE <<(IF neg THEN -1 ELSE 1) * LeadingDigits(u, 0)>>

\* String.prototype.substring(0, n)
Substring0(s, n) == IF Len(s) <= n THEN s ELSE SubSeq(s, 1, n)

\* positions of character c in s
Positions(s, c) == {i \in 1..Len(s) : s[i] = c}
MaxOf(S) == CHOOSE x \in S : \A y \in S : y <= x

\* path.basename (posix): drop trailing separators, keep what follows the last one
RECURSIVE StripTrailingSlashes(_)
StripTrailingSlashes(s) ==
    IF s # << >> /\ s[Len(s)] = "/" THEN StripTrailingSlashes(SubSeq(s, 1, Len(s) - 1)) ELSE s
Basename(s) ==
    LET t == StripTrailingSlashes(s)
        sl == Positions(t, "/")
    IN  IF sl = {} THEN t ELSE SubSeq(t, MaxOf(sl) + 1, Len(t))

\* path.extname (posix): from the last dot of the base name to its end; empty
\* when there is no dot, when the only dot is the first character, and for ".."
Extname(s) ==
    LET b == Basename(s)
        dots == Positions(b, ".")
    IN  IF dots = {} \/ MaxOf(dots) = 1 \/ b = <<".", ".">>
        THEN << >>
        ELSE SubSeq(b, MaxOf(dots), Len(b))

\* path.basename(p, ext): the base name without the suffix ext
BasenameExt(s, ext) ==
    LET b == Basename(s)
    IN  IF ext # << >> /\ Len(ext) < Len(b) /\ SubSeq(b, Len(b) - Len(ext) + 1, Len(b)) = ext
        THEN SubSeq(b, 1, Len(b) - Len(ext))
        ELSE b

\* .replace(/[^a-zA-Z0-9._-]/g, '_')
ReplaceUnsafe(s) == [i \in 1..Len(s) |-> IF s[i] \in SafeChars THEN s[i] ELSE "_"]

\* .replace(/_{2,}/g, '_')
RECURSIVE CollapseUnderscores(_)
CollapseUnderscores(s) ==
    IF Len(s) < 2 THEN s
    ELSE IF s[1] = "_" /\ s[2] = "_" THEN CollapseUnderscores(Tail(s))
    ELSE <<s[1]>> \o CollapseUnderscores(Tail(s))

sanitizeFileName(fileName) ==
    LET baseName == Basename(fileName)
        ext == Extname(baseName)
        nameWithoutExt == BasenameExt(baseName, ext)
        sanitized == Substring0(CollapseUnderscores(ReplaceUnsafe(nameWithoutExt)), MaxSanitizedLen)
    IN  sanitized \o ToLowerCase(ext)

getFileExtension(fileName) == ToLowerCase(Extname(fileName))

isAllowedMimeType(mimeType) == mimeType \in AllowedMimeTypes

isFileSizeAllowed(fileSize) == fileSize > 0 /\ fileSize <= MaxFileSize

\* a validation that lets every request through
AnyRequestValid(fileName, fileType, fileSize) == TRUE
\* validateUploadRequest(...).valid
validateUploadRequest(fileName, fileType, fileSize) ==
    /\ ~(fileName = << >> \/ Trim(fileName) = << >>)
    /\ fileType # ""
    /\ isAllowedMimeType(fileType)
    /\ ~(fileSize = 0 \/ fileSize <= 0)
    /\ isFileSizeAllowed(fileSize)

\* a key that leaves the file out
KeyWithoutFileId(projectId, fileId, fileName) == <<projectId, "", ReplaceUnsafe(fileName)>>
\* S3Service.generateS3Key: `${projectId}/${fileId}/${sanitizedFileName}`
generateS3Key(projectId, fileId, fileName) == <<projectId, fileId, ReplaceUnsafe(fileName)>>

(***************************************************************************)
(* State                                                                   *)
(***************************************************************************)
VARIABLES
    projects,   \* table items with PK USER#u, SK PROJECT#p, keyed <<u, p>>
    files,      \* table items with PK PROJECT#p, SK FILE#f, keyed <<p, f>>
    objects,    \* keys of the objects in the bucket
    issued,     \* keys for which a signed upload URL has been handed out
    clock,      \* new Date()
    req,        \* per slot: the handler in flight and its local variables
    last,       \* the response the latest step sent, if it sent one, with what
                \* its handler read and did
    walk,       \* a client following the cursors of a list endpoint: the rows
                \* it was given so far
    viewer,     \* useViewerState: its state (scale, position, logs) and refs
    timers,     \* the browser's timers: those pending and how many were set
    time,       \* the browser's clock in milliseconds
    burst       \* history: the run of scale-changing setScale calls under way

frontend == <<viewer, timers, time, burst>>
vars == <<projects, files, objects, issued, clock, req, last, walk, viewer, timers, time, burst>>

(***************************************************************************)
(* The metadata table (DynamoDB document client)                           *)
(***************************************************************************)
EmptyItem == [a \in {} |-> 0]

\* the attributes of upd laid over those of item
SetAttrs(item, upd) ==
    [a \in DOMAIN item \cup DOMAIN upd |-> IF a \in DOMAIN upd THEN upd[a] ELSE item[a]]

\* GetCommand: result.Item || null, as a sequence of at most one item
GetItem(t, k) == IF k \in DOMAIN t THEN <<t[k]>> ELSE << >>

PutItem(t, k, item) == [x \in DOMAIN t \cup {k} |-> IF x = k THEN item ELSE t[x]]

\* ConditionExpression 'attribute_not_exists(PK) AND attribute_not_exists(SK)'
AlwaysPasses(t, k) == TRUE
attribute_not_exists(t, k) == k \notin DOMAIN t

\* UpdateCommand with 'SET ...' and no condition: creates the item when absent
UpdateItemSet(t, k, upd) ==
    PutItem(t, k, SetAttrs(IF k \in DOMAIN t THEN t[k] ELSE EmptyItem, upd))

\* DeleteCommand
DeleteItem(t, k) == [x \in DOMAIN t \ {k} |-> t[x]]

\* the order of the sort keys FILE#f and PROJECT#p of the model's identifiers
IdOrder == <<"f1", "f2", "f3", "p1", "p2", "p3">>
Rank(id) == CHOOSE i \in 1..Len(IdOrder) : IdOrder[i] = id

\* the keys <<partition, sort>> of table t in one partition, by ascending sort key
SortedKeys(t, partition) ==
    LET S == {k \in DOMAIN t : k[1] = partition}
    IN  [i \in 1..Cardinality(S) |->
            CHOOSE k \in S : Cardinality({j \in S : Rank(j[2]) < Rank(k[2])}) = i - 1]

\* the key attributes of an item: PK `${pkTag}#${partition}`, SK `${skTag}#${sort}`
KeyAttrs(pkTag, skTag, k) == [PK |-> <<pkTag, k[1]>>, SK |-> <<skTag, k[2]>>]

\* the store accepts v as ExclusiveStartKey of a query of the partition: it has
\* the key attributes, of this partition and within begins_with(SK, skTag)
ValidStartKey(v, pkTag, skTag, partition) ==
    /\ DOMAIN v = {"PK", "SK"}
    /\ v.PK = <<pkTag, partition>>
    /\ v.SK[1] = skTag
    /\ v.SK[2] \in {IdOrder[i] : i \in 1..Len(IdOrder)}

FromStartKey(k, start) == start = << >> \/ Rank(k[2]) >= Rank(start[1].SK[2])
\* the keys a query resumes with: those after ExclusiveStartKey
AfterStartKey(k, start) == start = << >> \/ Rank(k[2]) > Rank(start[1].SK[2])

\* QueryCommand on one partition: Limit bounds the items evaluated, the filter
\* is applied to them afterwards; LastEvaluatedKey is the key of the last item
\* evaluated when Limit stopped the query.  When Limit is reached on the last
\* item of the partition the store may or may not report a LastEvaluatedKey
\* (atEnd).  passing is the set of keys whose item the FilterExpression
\* selects; limit and start are optional: << >> or <<value>>.
Query(t, pkTag, skTag, partition, passing, limit, start, atEnd) ==
    IF \/ (limit # << >> /\ limit[1] < 1)
       \/ (start # << >> /\ ~ValidStartKey(start[1], pkTag, skTag, partition))
    THEN [error |-> "ValidationException", Items |-> << >>, LastEvaluatedKey |-> << >>]
    ELSE LET keys == SelectSeq(SortedKeys(t, partition), LAMBDA k : AfterStartKey(k, start))
             n == IF limit # << >> /\ limit[1] < Len(keys) THEN limit[1] ELSE Len(keys)
             evaluated == SubSeq(keys, 1, n)
             stopped == /\ limit # << >> /\ n >= 1
                        /\ \/ limit[1] < Len(keys)
                           \/ (limit[1] = Len(keys) /\ atEnd)
             matching == SelectSeq(evaluated, LAMBDA k : k \in passing)
         IN  [error |-> "",
              Items |-> [i \in 1..Len(matching) |->
                           SetAttrs(t[matching[i]], KeyAttrs(pkTag, skTag, matching[i]))],
              LastEvaluatedKey |-> IF stopped THEN <<KeyAttrs(pkTag, skTag, evaluated[n])>>
                                   ELSE << >>]

(***************************************************************************)
(* DynamoDBService                                                         *)
(***************************************************************************)
\* the item createFileMetadata writes
createFileMetadataItem(metadata, now) ==
    [fileId |-> metadata.fileId, projectId |-> metadata.projectId,
     fileName |-> metadata.fileName, fileType |-> metadata.fileType,
     fileExtension |-> metadata.fileExtension, fileSize |-> metadata.fileSize,
     s3Key |-> metadata.s3Key, uploadedBy |-> metadata.uploadedBy,
     uploadedAt |-> now, status |-> "pending"]

\* the item createProject writes; an undefined description is not stored
createProjectItem(userId, projectId, name, description, now) ==
    SetAttrs([projectId |-> projectId, name |-> name, ownerId |-> userId,
              createdAt |-> now, updatedAt |-> now, status |-> "active",
              fileCount |-> 0, totalSize |-> 0],
             IF description = << >> THEN EmptyItem ELSE [description |-> description[1]])

getFileById(projectId, fileId) == GetItem(files, <<projectId, fileId>>)

KeepStatus(t, projectId, fileId, status) == t
\* updateFileStatus: the table after 'SET #status = :status'
updateFileStatus(t, projectId, fileId, status) ==
    UpdateItemSet(t, <<projectId, fileId>>, [status |-> status])

RemoveRow(t, projectId, fileId) == DeleteItem(t, <<projectId, fileId>>)
\* DynamoDBService.deleteFile: soft delete
softDeleteFile(t, projectId, fileId) == updateFileStatus(t, projectId, fileId, "deleted")

KeepRow(t, projectId, fileId) == t
hardDeleteFile(t, projectId, fileId) == DeleteItem(t, <<projectId, fileId>>)

\* a lookup by projectId alone, whoever owns the row
AnyOwnersProject(userId, projectId) ==
    LET ks == {k \in DOMAIN projects : k[2] = projectId}
    IN  IF ks = {} THEN << >> ELSE <<projects[CHOOSE k \in ks : TRUE]>>
getProjectById(userId, projectId) == GetItem(projects, <<userId, projectId>>)

\* a test that lets every project through
NeverDeleted(project) == FALSE
\* the projects controller's test project.status === 'deleted'
projectIsDeleted(project) == project.status = "deleted"

\* DynamoDBService.updateProject: the table after 'SET #updatedAt = :updatedAt'
\* and one more assignment per field of updates that is defined
db_updateProject(t, userId, projectId, updates, now) ==
    UpdateItemSet(t, <<userId, projectId>>,
        SetAttrs([updatedAt |-> now],
                 [a \in {f \in {"name", "description", "status"} : updates[f] # << >>}
                    |-> updates[a][1]]))

\* DynamoDBService.updateProject: (result.Attributes as Project) || null with
\* ReturnValues 'ALL_NEW', read from the table after the update
db_updateProjectResult(after, userId, projectId) == GetItem(after, <<userId, projectId>>)
\* DynamoDBService.deleteProject: soft delete
db_deleteProject(t, userId, projectId, now) ==
    db_updateProject(t, userId, projectId,
                     [name |-> << >>, description |-> << >>, status |-> <<"deleted">>], now)

\* a FilterExpression without the default clause on status
NoStatusDefault(options, item) ==
    /\ options.fileType # << >>
          => ("fileType" \in DOMAIN item /\ item.fileType = options.fileType[1])
    /\ options.status # << >>
          => ("status" \in DOMAIN item /\ item.status = options.status[1])
\* getProjectsByUser: the FilterExpression; without a status option, rows
\* whose status is deleted are excluded
projectsFilter(options, item) ==
    IF options.status # << >>
    THEN "status" \in DOMAIN item /\ item.status = options.status[1]
    ELSE ~("status" \in DOMAIN item /\ item.status = "deleted")

\* getFilesByProject: the FilterExpression
filesFilter(options, item) ==
    /\ options.fileType # << >>
          => ("fileType" \in DOMAIN item /\ item.fileType = options.fileType[1])
    /\ IF options.status # << >>
       THEN "status" \in DOMAIN item /\ item.status = options.status[1]
       ELSE ~("status" \in DOMAIN item /\ item.status = "deleted")

getFilesByProject(projectId, options, atEnd) ==
    Query(files, "PROJECT", "FILE", projectId,
          {k \in DOMAIN files : filesFilter(options, files[k])},
          options.limit, options.lastKey, atEnd)

getProjectsByUser(userId, options, atEnd) ==
    Query(projects, "USER", "PROJECT", userId,
          {k \in DOMAIN projects : projectsFilter(options, projects[k])},
          options.limit, options.lastKey, atEnd)

\* updateProjectStats is rejected by the store when the item or one of the
\* counters it adds to is absent, or when a delta is not a number
updateProjectStatsAccepted(t, userId, projectId, meta) ==
    /\ <<userId, projectId>> \in DOMAIN t
    /\ {"fileCount", "totalSize"} \subseteq DOMAIN t[<<userId, projectId>>]
    /\ "fileSize" \in DOMAIN meta

\* the error updateProjectStats rejects with, NoFault when it resolves
updateProjectStatsError(t, userId, projectId, meta, fault) ==
    IF fault # NoFault THEN fault
    ELSE IF ~updateProjectStatsAccepted(t, userId, projectId, meta) THEN "ValidationException"
    ELSE NoFault

\* a write of the deltas over whatever the counters were
OverwriteStats(t, userId, projectId, fileCountDelta, sizeDelta, now) ==
    UpdateItemSet(t, <<userId, projectId>>,
                  [fileCount |-> fileCountDelta, totalSize |-> sizeDelta, updatedAt |-> now])
\* an increment that stops at zero
ClampedStats(t, userId, projectId, fileCountDelta, sizeDelta, now) ==
    LET k == <<userId, projectId>>
        c == t[k].fileCount + fileCountDelta
        z == t[k].totalSize + sizeDelta
    IN  UpdateItemSet(t, k, [fileCount |-> IF c < 0 THEN 0 ELSE c,
                             totalSize |-> IF z < 0 THEN 0 ELSE z, updatedAt |-> now])
\* an increment that counts a project's first file only
OnceStats(t, userId, projectId, fileCountDelta, sizeDelta, now) ==
    LET k == <<userId, projectId>>
    IN  IF t[k].fileCount # 0
        THEN UpdateItemSet(t, k, [updatedAt |-> now])
        ELSE UpdateItemSet(t, k, [fileCount |-> fileCountDelta, totalSize |-> sizeDelta,
                                  updatedAt |-> now])
\* an increment that writes the deltas into a row of its own
NewRowStats(t, userId, projectId, fileCountDelta, sizeDelta, now) ==
    PutItem(t, <<userId, "stats">>,
            [fileCount |-> fileCountDelta, totalSize |-> sizeDelta, updatedAt |-> now])
\* an increment applied to the row of every owner of the projectId
EveryOwnersStats(t, userId, projectId, fileCountDelta, sizeDelta, now) ==
    [k \in DOMAIN t |->
        IF k[2] = projectId /\ {"fileCount", "totalSize"} \subseteq DOMAIN t[k]
        THEN SetAttrs(t[k], [fileCount |-> t[k].fileCount + fileCountDelta,
                             totalSize |-> t[k].totalSize + sizeDelta,
                             updatedAt |-> now])
        ELSE t[k]]
\* updateProjectStats: the table after the atomic increment
updateProjectStats(t, userId, projectId, fileCountDelta, sizeDelta, now) ==
    LET k == <<userId, projectId>>
    IN  UpdateItemSet(t, k, [fileCount |-> t[k].fileCount + fileCountDelta,
                             totalSize |-> t[k].totalSize + sizeDelta,
                             updatedAt |-> now])

(***************************************************************************)
(* S3Service                                                               *)
(***************************************************************************)
generateUploadUrl(projectId, fileId, fileName, contentType, fileSize) ==
    LET s3Key == generateS3Key(projectId, fileId, fileName)
    IN  [uploadUrl |-> [method |-> "PUT", key |-> s3Key, contentType |-> contentType,
                        expiresIn |-> PresignedUrlExpiry],
         s3Key |-> s3Key, expiresIn |-> PresignedUrlExpiry]

generateDownloadUrl(s3Key, originalFileName) ==
    [downloadUrl |-> [method |-> "GET", key |-> s3Key, filename |-> originalFileName,
                      expiresIn |-> PresignedUrlExpiry],
     expiresIn |-> PresignedUrlExpiry]

AnswerIsExists(s3Key) == TRUE
\* objectExists: HeadObject answers, or answers NotFound
objectExists(s3Key) == s3Key \in objects

\* deleteObject: the bucket afterwards; deleting an absent key is no error
deleteObject(bucket, s3Key) == bucket \ {s3Key}

(***************************************************************************)
(* Requests and responses                                                  *)
(***************************************************************************)
Faults == {NoFault} \cup CollabErrors

\* a rejection that reaches the handler's catch block
Rethrow(err) == err
\* .catch(() => { }) on the promise of updateProjectStats: the rejection is
\* dropped, the await resolves
catchIgnore(err) == NoFault

\* optional descriptions a client may send: none, or one string
Descriptions == { << >>, << <<" ", "b">> >> }
\* the description the requests of Spec send
SomeDescription == { << <<" ", "b">> >> }

\* PATCH bodies a client may send, each field optional
PatchBodies ==
    { [name |-> << <<"b">> >>, description |-> << >>, status |-> << >>],
      [name |-> << >>, description |-> << >>, status |-> <<"archived">>],
      [name |-> << <<" ">> >>, description |-> << >>, status |-> << >>] }

IdleReq ==
    [op |-> "idle", pc |-> "idle", userId |-> "", projectId |-> "", fileId |-> "",
     hard |-> FALSE, meta |-> << >>, updated |-> << >>, nDel |-> 0, body |-> << >>]

NewReq(op, userId, projectId, fileId, hard) ==
    [IdleReq EXCEPT !.op = op, !.userId = userId, !.projectId = projectId,
                    !.fileId = fileId, !.hard = hard]

\* what sendSuccess / sendError put on the wire, with the handler's locals
Response(r, status, code, data, err) ==
    [op |-> r.op, userId |-> r.userId, projectId |-> r.projectId, fileId |-> r.fileId,
     hard |-> r.hard, meta |-> r.meta, nDel |-> r.nDel, body |-> r.body,
     status |-> status, code |-> code, data |-> data, err |-> err]

\* an error response that always says 400
sendBadRequest(r, code, statusCode, err) == Response(r, 400, code, << >>, err)
sendSuccess(r, data, statusCode) == Response(r, statusCode, "", <<data>>, "")
sendError(r, code, statusCode, err) == Response(r, statusCode, code, << >>, err)

\* the value of last after a step that sends no response
NoResponse == Response([IdleReq EXCEPT !.op = "none"], 0, "", << >>, "")

\* JSON.stringify, Buffer.toString('base64') and their inverses; a cursor
\* is what its bytes decode to, text that is no base64 of JSON included
JSONstringify(v) == [json |-> v]
Base64Encode(x) == [base64 |-> x]
\* Buffer.from(s, 'base64').toString() never throws: text that is no base64
\* decodes to some bytes that are no JSON
Base64Decode(c) == IF "base64" \in DOMAIN c THEN c.base64 ELSE c
\* JSON.parse: the value, or << >> when it throws
JSONparse(x) == IF "json" \in DOMAIN x THEN <<x.json>> ELSE << >>

\* query-string values of limit: absent, and texts parseInt reads as 1 and -1
LimitParams == { << >>, << <<"1", "x">> >>, << <<"-", "1">> >> }
WalkLimitParams == { << <<"1">> >>, << <<"2">> >> }
StatusParams == { << >>, <<"">>, <<"deleted">> }
FileTypeParams == { << >>, <<"image/png">> }
\* query-string values of lastKey: absent, text that does not decode, the
\* cursor of a JSON value that is no key, and the cursors of keys of the
\* partition
CursorParams(pkTag, skTag, partition, ids) ==
    { << >>, << [text |-> "%"] >>, << Base64Encode(JSONstringify([number |-> 1])) >> }
    \cup { << Base64Encode(JSONstringify(KeyAttrs(pkTag, skTag, <<partition, id>>))) >> : id \in ids }

\* no client is following cursors
NoWalk == [phase |-> "none", kind |-> "", partition |-> "",
           query |-> [fileType |-> << >>, status |-> << >>, limit |-> << >>, lastKey |-> << >>],
           seen |-> << >>, pages |-> 0]

Abs(n) == IF n < 0 THEN -n ELSE n

(***************************************************************************)
(* The viewer state hook (useViewerState) and the browser's timers         *)
(*                                                                         *)
(* Scales are in percent: the source's 1 is 100, its 0.25 is 25 and its    *)
(* MAX_SCALE of 20 is 2000.  A log entry's id (crypto.randomUUID) is left  *)
(* out; its timestamp is the browser's clock.                              *)
(***************************************************************************)
MAX_SCALE == 2000
ZOOM_LOG_DEBOUNCE_MS == 300
\* setScale: const minScale = 0.25
minScale == 25
\* useState(1), and resetView: const initialScale = 1
initialScale == 100

\* the scales a wheel event may ask for: below the minimum, the initial
\* scale, twice that, above the maximum
NewScales == {10, 100, 200, 5000}
\* the time that may pass between two events, in milliseconds
Delays == {100, 200, 300}

Min2(a, b) == IF a < b THEN a ELSE b
Max2(a, b) == IF a > b THEN a ELSE b

\* Math.min(MAX_SCALE, Math.max(minScale, newScale))
clampScale(newScale) == Min2(MAX_SCALE, Max2(minScale, newScale))

\* setTimeout(callback, delay): the pending timers afterwards; the callback
\* is the zoom logger closed over startScale and clampedScale, id the handle
setTimeout(t, startScale, clampedScale, delay) ==
    [pending |-> t.pending \cup {[id |-> t.created + 1, due |-> time + delay,
                                  startScale |-> startScale,
                                  clampedScale |-> clampedScale]},
     created |-> t.created + 1]

\* a clearTimeout that clears nothing
KeepTimeout(t, ref) == t
\* clearTimeout(ref): a handle that is not pending any more is ignored
clearTimeout(t, ref) ==
    [t EXCEPT !.pending = {x \in t.pending : ref = << >> \/ x.id # ref[1]}]

\* addLog: the logs with the entry appended
addLog(logs, action, details) ==
    Append(logs, [timestamp |-> time, action |-> action, details |-> details])

InitViewer ==
    [scale |-> initialScale, position |-> [x |-> 0, y |-> 0], logs |-> << >>,
     prevScaleRef |-> initialScale, baseScaleRef |-> initialScale,
     zoomStartScaleRef |-> << >>, zoomDebounceRef |-> << >>]
NoTimers == [pending |-> {}, created |-> 0]
NoBurst == [phase |-> "none", start |-> 0, first |-> 0, last |-> 0]
\* the model starts a request that adjusts counters only while the counters
\* of the caller's project row stay within MaxCount
CanAdjust(userId, projectId) ==
    LET k == <<userId, projectId>>
        inFlight == {s \in Slots : /\ req[s].op \in {"confirmUpload", "deleteFile"}
                                   /\ req[s].userId = userId
                                   /\ req[s].projectId = projectId}
    IN  (k \in DOMAIN projects /\ "fileCount" \in DOMAIN projects[k])
            => Abs(projects[k].fileCount) + Cardinality(inFlight) < MaxCount

Init ==
    /\ projects = EmptyItem
    /\ files = EmptyItem
    /\ objects = {}
    /\ issued = {}
    /\ clock = 0
    /\ req = [s \in Slots |-> IdleReq]
    /\ last = NoResponse
    /\ walk = NoWalk
    /\ viewer = InitViewer
    /\ timers = NoTimers
    /\ time = 0
    /\ burst = NoBurst

\* time passes
Tick ==
    /\ clock < MaxClock
    /\ clock' = clock + 1
    /\ last' = NoResponse
    /\ UNCHANGED <<projects, files, objects, issued, req, walk, frontend>>

\* a client PUTs the bytes to a signed upload URL it was given
uploadObject(s3Key) ==
    /\ s3Key \in issued
    /\ s3Key \notin objects
    /\ objects' = objects \cup {s3Key}
    /\ last' = NoResponse
    /\ UNCHANGED <<projects, files, issued, clock, req, walk, frontend>>

\* slot s is idle and so is no slot before it (slots are interchangeable)
FirstIdle(s) == req[s].op = "idle" /\ \A t \in Slots : t < s => req[t].op # "idle"

\* finish the request in slot s with response resp
Finish(s, resp) ==
    /\ last' = resp
    /\ req' = [req EXCEPT ![s] = IdleReq]

(***************************************************************************)
(* Projects controller                                                     *)
(***************************************************************************)
\* POST /projects; projectId is the uuid drawn, fault the store's failure
createProject(userId, name, description, projectId, fault) ==
    LET r == NewReq("createProject", userId, projectId, "", FALSE)
        k == <<userId, projectId>>
        item == createProjectItem(userId, projectId, Trim(name),
                    IF description = << >> THEN << >> ELSE <<Trim(description[1])>>, clock)
    IN  /\ UNCHANGED <<files, objects, issued, clock, req, walk, frontend>>
        /\ IF name = << >> \/ Len(Trim(name)) = 0 \/ Len(name) > MaxProjectNameLen
           THEN /\ last' = sendError(r, "VALIDATION_ERROR", 400, "")
                /\ UNCHANGED projects
           ELSE IF fault # NoFault
           THEN /\ last' = sendError(r, "INTERNAL_ERROR", 500, fault)
                /\ UNCHANGED projects
           ELSE IF ~attribute_not_exists(projects, k)
           THEN /\ last' = sendError(r, "PROJECT_ALREADY_EXISTS", 409,
                                     "ConditionalCheckFailedException")
                /\ UNCHANGED projects
           ELSE /\ projects' = PutItem(projects, k, item)
                /\ last' = sendSuccess(r, [projectId |-> projectId, name |-> item.name,
                                           createdAt |-> item.createdAt], 201)

\* GET /projects/:projectId
getProject(userId, projectId, fault) ==
    LET project == getProjectById(userId, projectId)
        r == [NewReq("getProject", userId, projectId, "", FALSE) EXCEPT !.meta = project]
    IN  /\ UNCHANGED <<projects, files, objects, issued, clock, req, walk, frontend>>
        /\ last' =
             IF fault # NoFault THEN sendError([r EXCEPT !.meta = << >>], "INTERNAL_ERROR", 500, fault)
             ELSE IF project = << >> THEN sendError(r, "PROJECT_NOT_FOUND", 404, "")
             ELSE IF projectIsDeleted(project[1]) THEN sendError(r, "PROJECT_NOT_FOUND", 404, "")
             ELSE sendSuccess(r, project[1], 200)

\* PATCH /projects/:projectId, up to the answer of getProjectById and the
\* validation of the name; existingProject is not read after these checks
updateProject_get(s, userId, projectId, body, fault) ==
    LET r == [NewReq("updateProject", userId, projectId, "", FALSE) EXCEPT !.body = <<body>>]
        existingProject == getProjectById(userId, projectId)
        name == body.name
    IN  /\ FirstIdle(s)
        /\ UNCHANGED <<projects, files, objects, issued, clock, walk, frontend>>
        /\ IF fault # NoFault
           THEN Finish(s, sendError(r, "INTERNAL_ERROR", 500, fault))
           ELSE IF existingProject = << >>
           THEN Finish(s, sendError(r, "PROJECT_NOT_FOUND", 404, ""))
           ELSE IF projectIsDeleted(existingProject[1])
           THEN Finish(s, sendError([r EXCEPT !.meta = existingProject],
                                    "PROJECT_NOT_FOUND", 404, ""))
           ELSE IF name # << >> /\ (Len(Trim(name[1])) = 0 \/ Len(name[1]) > MaxProjectNameLen)
           THEN Finish(s, sendError([r EXCEPT !.meta = existingProject],
                                    "VALIDATION_ERROR", 400, ""))
           ELSE /\ req' = [req EXCEPT ![s] = [r EXCEPT !.pc = "update"]]
                /\ last' = NoResponse

\* updateProject: the answer of dynamoDBService.updateProject
updateProject_update(s, fault) ==
    LET r == req[s]
        body == r.body[1]
        updates == [name |-> IF body.name = << >> THEN << >> ELSE <<Trim(body.name[1])>>,
                    description |-> IF body.description = << >> THEN << >>
                                    ELSE <<Trim(body.description[1])>>,
                    status |-> body.status]
    IN  /\ r.op = "updateProject" /\ r.pc = "update"
        /\ UNCHANGED <<files, objects, issued, clock, walk, frontend>>
        /\ IF fault # NoFault
           THEN /\ Finish(s, sendError(r, "INTERNAL_ERROR", 500, fault))
                /\ UNCHANGED projects
           ELSE /\ projects' = db_updateProject(projects, r.userId, r.projectId, updates, clock)
                /\ Finish(s, sendSuccess(r, projects'[<<r.userId, r.projectId>>], 200))

\* DELETE /projects/:projectId, up to the answer of getProjectById;
\* existingProject is not read after the checks
deleteProject_get(s, userId, projectId, fault) ==
    LET r == NewReq("deleteProject", userId, projectId, "", FALSE)
        existingProject == getProjectById(userId, projectId)
    IN  /\ FirstIdle(s)
        /\ UNCHANGED <<projects, files, objects, issued, clock, walk, frontend>>
        /\ IF fault # NoFault
           THEN Finish(s, sendError(r, "INTERNAL_ERROR", 500, fault))
           ELSE IF existingProject = << >>
           THEN Finish(s, sendError(r, "PROJECT_NOT_FOUND", 404, ""))
           ELSE IF projectIsDeleted(existingProject[1])
           THEN Finish(s, sendError([r EXCEPT !.meta = existingProject],
                                    "PROJECT_NOT_FOUND", 404, ""))
           ELSE /\ req' = [req EXCEPT ![s] = [r EXCEPT !.pc = "update"]]
                /\ last' = NoResponse

\* deleteProject: the answer of dynamoDBService.deleteProject
deleteProject_update(s, fault) ==
    LET r == req[s]
    IN  /\ r.op = "deleteProject" /\ r.pc = "update"
        /\ UNCHANGED <<files, objects, issued, clock, walk, frontend>>
        /\ IF fault # NoFault
           THEN /\ Finish(s, sendError(r, "INTERNAL_ERROR", 500, fault))
                /\ UNCHANGED projects
           ELSE /\ projects' = db_deleteProject(projects, r.userId, r.projectId, clock)
                /\ Finish(s, sendSuccess(r, [message |-> "Project deleted"], 200))

(***************************************************************************)
(* The metadata service called directly                                    *)
(***************************************************************************)
\* the updates a caller of the service may pass, each field optional
ServiceUpdates ==
    { [name |-> << >>, description |-> << >>, status |-> << >>],
      [name |-> << <<"b">> >>, description |-> << >>, status |-> << >>],
      [name |-> << >>, description |-> << >>, status |-> <<"archived">>] }
ServicePids == {"p1", "p2"}

\* dynamoDBService.updateProject(userId, projectId, updates) and what it
\* resolves to
service_updateProject(userId, projectId, updates) ==
    LET r == [NewReq("service.updateProject", userId, projectId, "", FALSE)
                EXCEPT !.body = <<updates>>, !.meta = getProjectById(userId, projectId)]
    IN  /\ projects' = db_updateProject(projects, userId, projectId, updates, clock)
        /\ last' = Response(r, 0, "", db_updateProjectResult(projects', userId, projectId), "")
        /\ UNCHANGED <<files, objects, issued, clock, req, walk, frontend>>

\* dynamoDBService.deleteProject(userId, projectId) and what it resolves to
service_deleteProject(userId, projectId) ==
    LET r == [NewReq("service.deleteProject", userId, projectId, "", FALSE)
                EXCEPT !.meta = getProjectById(userId, projectId)]
    IN  /\ projects' = db_deleteProject(projects, userId, projectId, clock)
        /\ last' = Response(r, 0, "", db_updateProjectResult(projects', userId, projectId), "")
        /\ UNCHANGED <<files, objects, issued, clock, req, walk, frontend>>
(***************************************************************************)
(* Files controller                                                        *)
(***************************************************************************)
\* POST /projects/:projectId/files; fileId is the uuid drawn
requestUpload(userId, projectId, fileName, fileType, fileSize, fileId, fault) ==
    LET r == [NewReq("requestUpload", userId, projectId, fileId, FALSE)
                EXCEPT !.body = <<[fileName |-> fileName, fileType |-> fileType,
                                   fileSize |-> fileSize]>>]
        k == <<projectId, fileId>>
        sanitizedFileName == sanitizeFileName(fileName)
        fileExtension == getFileExtension(sanitizedFileName)
        url == generateUploadUrl(projectId, fileId, sanitizedFileName, fileType, fileSize)
        item == createFileMetadataItem(
                    [fileId |-> fileId, projectId |-> projectId,
                     fileName |-> sanitizedFileName, fileType |-> fileType,
                     fileExtension |-> fileExtension, fileSize |-> fileSize,
                     s3Key |-> url.s3Key, uploadedBy |-> userId], clock)
    IN  /\ UNCHANGED <<projects, objects, clock, req, walk, frontend>>
        /\ IF ~validateUploadRequest(fileName, fileType, fileSize)
           THEN /\ last' = sendError(r, "VALIDATION_ERROR", 400, "")
                /\ UNCHANGED <<files, issued>>
           ELSE IF fault # NoFault
           THEN /\ last' = sendError(r, "INTERNAL_ERROR", 500, fault)
                /\ UNCHANGED <<files, issued>>
           ELSE IF ~attribute_not_exists(files, k)
           THEN /\ last' = sendError(r, "INTERNAL_ERROR", 500,
                                     "ConditionalCheckFailedException")
                /\ UNCHANGED <<files, issued>>
           ELSE /\ files' = PutItem(files, k, item)
                /\ issued' = issued \cup {url.s3Key}
                /\ last' = sendSuccess(r, [fileId |-> fileId, uploadUrl |-> url.uploadUrl,
                                           expiresIn |-> url.expiresIn], 201)


\* POST .../:fileId/confirm, up to the answer of getFileById
confirmUpload_get(s, userId, projectId, fileId, fault) ==
    LET r == NewReq("confirmUpload", userId, projectId, fileId, FALSE)
        fileMetadata == getFileById(projectId, fileId)
    IN  /\ FirstIdle(s)
        /\ CanAdjust(userId, projectId)
        /\ UNCHANGED <<projects, files, objects, issued, clock, walk, frontend>>
        /\ IF fault # NoFault
           THEN Finish(s, sendError(r, "INTERNAL_ERROR", 500, fault))
           ELSE IF fileMetadata = << >>
           THEN Finish(s, sendError(r, "FILE_NOT_FOUND", 404, ""))
           ELSE /\ req' = [req EXCEPT ![s] = [r EXCEPT !.meta = fileMetadata, !.pc = "probe"]]
                /\ last' = NoResponse

\* confirmUpload: the answer of s3Service.objectExists
confirmUpload_probe(s, fault) ==
    LET r == req[s]
        m == r.meta[1]
    IN  /\ r.op = "confirmUpload" /\ r.pc = "probe"
        /\ UNCHANGED <<projects, files, objects, issued, clock, walk, frontend>>
        /\ IF fault # NoFault \/ "s3Key" \notin DOMAIN m
           THEN Finish(s, sendError(r, "INTERNAL_ERROR", 500,
                                    IF fault # NoFault THEN fault ELSE "Error"))
           ELSE IF ~objectExists(m.s3Key)
           THEN Finish(s, sendError(r, "VALIDATION_ERROR", 400, ""))
           ELSE /\ req' = [req EXCEPT ![s].pc = "write"]
                /\ last' = NoResponse

\* confirmUpload: the answer of updateFileStatus(projectId, fileId, 'uploaded')
confirmUpload_write(s, fault) ==
    LET r == req[s]
        k == <<r.projectId, r.fileId>>
    IN  /\ r.op = "confirmUpload" /\ r.pc = "write"
        /\ UNCHANGED <<projects, objects, issued, clock, walk, frontend>>
        /\ IF fault # NoFault
           THEN /\ Finish(s, sendError(r, "INTERNAL_ERROR", 500, fault))
                /\ UNCHANGED files
           ELSE /\ files' = updateFileStatus(files, r.projectId, r.fileId, "uploaded")
                /\ req' = [req EXCEPT ![s].pc = "stats", ![s].updated = <<files'[k]>>]
                /\ last' = NoResponse

\* confirmUpload: updateProjectStats(userId, projectId, 1, fileSize), its
\* failure ignored, and the response
confirmUpload_stats(s, fault) ==
    LET r == req[s]
        m == r.meta[1]
        rejection == updateProjectStatsError(projects, r.userId, r.projectId, m, fault)
    IN  /\ r.op = "confirmUpload" /\ r.pc = "stats"
        /\ UNCHANGED <<files, objects, issued, clock, walk, frontend>>
        /\ projects' =
             IF rejection = NoFault
             THEN updateProjectStats(projects, r.userId, r.projectId, 1, m.fileSize, clock)
             ELSE projects
        /\ IF catchIgnore(rejection) # NoFault
           THEN Finish(s, sendError(r, "INTERNAL_ERROR", 500, rejection))
           ELSE Finish(s, [sendSuccess(r, r.updated[1], 200)
                             EXCEPT !.err = IF rejection = NoFault THEN "" ELSE rejection])

\* GET .../:fileId
getDownloadUrl(projectId, fileId, fault) ==
    LET fileMetadata == getFileById(projectId, fileId)
        r == [NewReq("getDownloadUrl", "", projectId, fileId, FALSE) EXCEPT !.meta = fileMetadata]
        m == fileMetadata[1]
    IN  /\ UNCHANGED <<projects, files, objects, issued, clock, req, walk, frontend>>
        /\ last' =
             IF fault # NoFault THEN sendError([r EXCEPT !.meta = << >>], "INTERNAL_ERROR", 500, fault)
             ELSE IF fileMetadata = << >> THEN sendError(r, "FILE_NOT_FOUND", 404, "")
             ELSE IF m.status = "deleted" THEN sendError(r, "FILE_NOT_FOUND", 404, "")
             ELSE IF "s3Key" \notin DOMAIN m THEN sendError(r, "INTERNAL_ERROR", 500, "Error")
             ELSE sendSuccess(r, [fileId |-> m.fileId, fileName |-> m.fileName,
                                  downloadUrl |-> generateDownloadUrl(m.s3Key, m.fileName).downloadUrl,
                                  expiresIn |-> generateDownloadUrl(m.s3Key, m.fileName).expiresIn],
                              200)

\* GET .../:fileId/metadata
getFileMetadata(projectId, fileId, fault) ==
    LET fileMetadata == getFileById(projectId, fileId)
        r == [NewReq("getFileMetadata", "", projectId, fileId, FALSE) EXCEPT !.meta = fileMetadata]
    IN  /\ UNCHANGED <<projects, files, objects, issued, clock, req, walk, frontend>>
        /\ last' =
             IF fault # NoFault THEN sendError([r EXCEPT !.meta = << >>], "INTERNAL_ERROR", 500, fault)
             ELSE IF fileMetadata = << >> THEN sendError(r, "FILE_NOT_FOUND", 404, "")
             ELSE IF fileMetadata[1].status = "deleted" THEN sendError(r, "FILE_NOT_FOUND", 404, "")
             ELSE sendSuccess(r, fileMetadata[1], 200)

\* DELETE .../:fileId?hard=..., up to the answer of getFileById
deleteFile_get(s, userId, projectId, fileId, hardDelete, fault) ==
    LET r == NewReq("deleteFile", userId, projectId, fileId, hardDelete)
        fileMetadata == getFileById(projectId, fileId)
    IN  /\ FirstIdle(s)
        /\ CanAdjust(userId, projectId)
        /\ UNCHANGED <<projects, files, objects, issued, clock, walk, frontend>>
        /\ IF fault # NoFault
           THEN Finish(s, sendError(r, "INTERNAL_ERROR", 500, fault))
           ELSE IF fileMetadata = << >>
           THEN Finish(s, sendError(r, "FILE_NOT_FOUND", 404, ""))
           ELSE IF fileMetadata[1].status = "deleted" /\ ~hardDelete
           THEN Finish(s, sendError([r EXCEPT !.meta = fileMetadata], "FILE_NOT_FOUND", 404, ""))
           ELSE /\ req' = [req EXCEPT ![s] = [r EXCEPT !.meta = fileMetadata,
                                                       !.pc = IF hardDelete THEN "s3" ELSE "soft"]]
                /\ last' = NoResponse

\* deleteFile, hard: the answer of s3Service.deleteObject(fileMetadata.s3Key)
deleteFile_s3(s, fault) ==
    LET r == req[s]
        m == r.meta[1]
    IN  /\ r.op = "deleteFile" /\ r.pc = "s3"
        /\ UNCHANGED <<projects, files, issued, clock, walk, frontend>>
        /\ IF fault # NoFault \/ "s3Key" \notin DOMAIN m
           THEN /\ Finish(s, sendError(r, "INTERNAL_ERROR", 500,
                                       IF fault # NoFault THEN fault ELSE "Error"))
                /\ UNCHANGED objects
           ELSE /\ objects' = deleteObject(objects, m.s3Key)
                /\ req' = [req EXCEPT ![s].pc = "row", ![s].nDel = r.nDel + 1]
                /\ last' = NoResponse

\* deleteFile, hard: the answer of dynamoDBService.hardDeleteFile
deleteFile_row(s, fault) ==
    LET r == req[s]
    IN  /\ r.op = "deleteFile" /\ r.pc = "row"
        /\ UNCHANGED <<projects, objects, issued, clock, walk, frontend>>
        /\ IF fault # NoFault
           THEN /\ Finish(s, sendError(r, "INTERNAL_ERROR", 500, fault))
                /\ UNCHANGED files
           ELSE /\ files' = hardDeleteFile(files, r.projectId, r.fileId)
                /\ req' = [req EXCEPT ![s].pc = "stats"]
                /\ last' = NoResponse

\* deleteFile, soft: the answer of dynamoDBService.deleteFile
deleteFile_soft(s, fault) ==
    LET r == req[s]
    IN  /\ r.op = "deleteFile" /\ r.pc = "soft"
        /\ UNCHANGED <<projects, objects, issued, clock, walk, frontend>>
        /\ IF fault # NoFault
           THEN /\ Finish(s, sendError(r, "INTERNAL_ERROR", 500, fault))
                /\ UNCHANGED files
           ELSE /\ files' = softDeleteFile(files, r.projectId, r.fileId)
                /\ req' = [req EXCEPT ![s].pc = "stats"]
                /\ last' = NoResponse

\* deleteFile: updateProjectStats(userId, projectId, -1, -fileSize), its
\* failure ignored, and the response
deleteFile_stats(s, fault) ==
    LET r == req[s]
        m == r.meta[1]
        rejection == updateProjectStatsError(projects, r.userId, r.projectId, m, fault)
    IN  /\ r.op = "deleteFile" /\ r.pc = "stats"
        /\ UNCHANGED <<files, objects, issued, clock, walk, frontend>>
        /\ projects' =
             IF rejection = NoFault
             THEN updateProjectStats(projects, r.userId, r.projectId, -1, -m.fileSize, clock)
             ELSE projects
        /\ IF catchIgnore(rejection) # NoFault
           THEN Finish(s, sendError(r, "INTERNAL_ERROR", 500, rejection))
           ELSE Finish(s, [sendSuccess(r, [message |-> IF r.hard THEN "File permanently deleted"
                                                        ELSE "File deleted"], 200)
                             EXCEPT !.err = IF rejection = NoFault THEN "" ELSE rejection])

\* The file life cycle under concurrent requests of one caller.  No handler
\* reads the clock to decide anything, and the requests of Spec are all served
\* at one clock reading; time passes in the specifications about timestamps.
(***************************************************************************)
(* Listing                                                                 *)
(***************************************************************************)
\* the options both list handlers build from req.query
listOptions(query) ==
    [fileType |-> IF query.fileType # << >> /\ query.fileType[1] # "" THEN query.fileType ELSE << >>,
     status |-> IF query.status # << >> /\ query.status[1] # "" THEN query.status ELSE << >>,
     limit |-> IF query.limit # << >> /\ query.limit[1] # << >>
               THEN LET n == parseInt(query.limit[1])
                        m == IF n = << >> \/ n[1] = 0 THEN DefaultLimit ELSE n[1]
                    IN  <<IF m < MaxLimit THEN m ELSE MaxLimit>>
               ELSE << >>,
     lastKey |-> IF query.lastKey # << >>
                 THEN JSONparse(Base64Decode(query.lastKey[1]))
                 ELSE << >>]

\* the response of GET /projects/:projectId/files
listFilesResponse(projectId, query, fault, atEnd) ==
    LET r == [NewReq("listFiles", "", projectId, "", FALSE) EXCEPT !.body = <<query>>]
        result == getFilesByProject(projectId, listOptions(query), atEnd)
    IN  IF fault # NoFault THEN sendError(r, "INTERNAL_ERROR", 500, fault)
        ELSE IF result.error # "" THEN sendError(r, "INTERNAL_ERROR", 500, result.error)
        ELSE sendSuccess(r, [files |-> result.Items,
                             nextKey |-> IF result.LastEvaluatedKey # << >>
                                         THEN <<Base64Encode(JSONstringify(result.LastEvaluatedKey[1]))>>
                                         ELSE << >>], 200)

\* the response of GET /projects; listProjects reads no fileType
listProjectsResponse(userId, query, fault, atEnd) ==
    LET r == [NewReq("listProjects", userId, "", "", FALSE) EXCEPT !.body = <<query>>]
        result == getProjectsByUser(userId, [listOptions(query) EXCEPT !.fileType = << >>], atEnd)
    IN  IF fault # NoFault THEN sendError(r, "INTERNAL_ERROR", 500, fault)
        ELSE IF result.error # "" THEN sendError(r, "INTERNAL_ERROR", 500, result.error)
        ELSE sendSuccess(r, [projects |-> result.Items,
                             nextKey |-> IF result.LastEvaluatedKey # << >>
                                         THEN <<Base64Encode(JSONstringify(result.LastEvaluatedKey[1]))>>
                                         ELSE << >>], 200)

\* GET /projects/:projectId/files by a client that follows no cursor
listFiles(projectId, query, fault, atEnd) ==
    /\ last' = listFilesResponse(projectId, query, fault, atEnd)
    /\ walk' = NoWalk
    /\ UNCHANGED <<projects, files, objects, issued, clock, req, frontend>>

\* GET /projects by a client that follows no cursor
listProjects(userId, query, fault, atEnd) ==
    /\ last' = listProjectsResponse(userId, query, fault, atEnd)
    /\ walk' = NoWalk
    /\ UNCHANGED <<projects, files, objects, issued, clock, req, frontend>>

\* the pages of a client that lists with a limit and follows nextKey
listResponse(kind, partition, query, fault, atEnd) ==
    IF kind = "files" THEN listFilesResponse(partition, query, fault, atEnd)
    ELSE listProjectsResponse(partition, query, fault, atEnd)

\* the walk after the client received resp for its request
Walked(w, resp) ==
    IF resp.status # 200 THEN [w EXCEPT !.phase = "failed", !.pages = @ + 1]
    ELSE LET rows == IF w.kind = "files" THEN resp.data[1].files ELSE resp.data[1].projects
         IN  [w EXCEPT !.phase = IF resp.data[1].nextKey = << >> THEN "done" ELSE "walking",
                       !.query.lastKey = resp.data[1].nextKey,
                       !.seen = @ \o [i \in 1..Len(rows) |-> rows[i].SK[2]],
                       !.pages = @ + 1]

\* the first page: list with limit and filters, without lastKey
WalkFirst(kind, partition, query, fault, atEnd) ==
    /\ query.lastKey = << >>
    /\ last' = listResponse(kind, partition, query, fault, atEnd)
    /\ walk' = Walked([NoWalk EXCEPT !.kind = kind, !.partition = partition,
                                      !.query = query], last')
    /\ UNCHANGED <<projects, files, objects, issued, clock, req, frontend>>

\* the next page: the same request with the returned nextKey as lastKey
WalkNext(fault, atEnd) ==
    /\ walk.phase = "walking"
    /\ last' = listResponse(walk.kind, walk.partition, walk.query, fault, atEnd)
    /\ walk' = Walked(walk, last')
    /\ UNCHANGED <<projects, files, objects, issued, clock, req, frontend>>

\* the rows a list request may find in a partition: written by requestUpload
\* or createProject, then confirmed or soft deleted
PageFids == {"f1", "f2", "f3"}
PagePids == {"p1", "p2"}
FileRow(projectId, fileId, fileType, status) ==
    LET fileName == sanitizeFileName(ValidName)
    IN  [createFileMetadataItem(
            [fileId |-> fileId, projectId |-> projectId, fileName |-> fileName,
             fileType |-> fileType, fileExtension |-> getFileExtension(fileName),
             fileSize |-> 3, s3Key |-> generateS3Key(projectId, fileId, fileName),
             uploadedBy |-> "u1"], 0) EXCEPT !.status = status]
FileRows(projectId, fileId) ==
    { FileRow(projectId, fileId, "application/pdf", "uploaded"),
      FileRow(projectId, fileId, "image/png", "deleted") }
ProjectRows(userId, projectId) ==
    { [createProjectItem(userId, projectId, <<"a">>, << >>, 0) EXCEPT !.status = status] :
        status \in {"active", "deleted"} }
FileTables ==
    UNION { { t \in [{<<"p1", f>> : f \in F} -> UNION {FileRows("p1", f) : f \in F}] :
                \A f \in F : t[<<"p1", f>>] \in FileRows("p1", f) } : F \in SUBSET PageFids }
ProjectTables ==
    UNION { { t \in [{<<"u1", p>> : p \in P} -> UNION {ProjectRows("u1", p) : p \in P}] :
                \A p \in P : t[<<"u1", p>>] \in ProjectRows("u1", p) } : P \in SUBSET PagePids }

InitPage ==
    /\ \/ files \in FileTables /\ projects = EmptyItem
       \/ files = EmptyItem /\ projects \in ProjectTables
    /\ objects = {}
    /\ issued = {}
    /\ clock = 0
    /\ req = [s \in Slots |-> IdleReq]
    /\ last = NoResponse
    /\ walk = NoWalk
    /\ viewer = InitViewer
    /\ timers = NoTimers
    /\ time = 0
    /\ burst = NoBurst

FileQueries ==
    [fileType : FileTypeParams, status : StatusParams, limit : LimitParams,
     lastKey : CursorParams("PROJECT", "FILE", "p1", {"f1"})]
ProjectQueries ==
    [fileType : {<< >>}, status : StatusParams, limit : LimitParams,
     lastKey : CursorParams("USER", "PROJECT", "u1", {"p1"})]
WalkQueries(kind) ==
    [fileType : IF kind = "files" THEN FileTypeParams ELSE {<< >>},
     status : StatusParams, limit : WalkLimitParams, lastKey : {<< >>}]

\* file names a client may send: every text of at most MaxNameLen characters
\* out of a lower and an upper case letter, the dot, the path separator and
\* the blank
NameChars == {"a", "A", ".", "/", " "}
FileNames == UNION {[1..n -> NameChars] : n \in 0..MaxNameLen}

\* the identifiers uuidv4 has not drawn yet
FreshFids == {f \in Fids : \A k \in issued : k[2] # f}

\* One client at a time uploads a file under any name, confirms it, fetches
\* it and removes it.
NextName ==
    \/ \E fileName \in FileNames, fileId \in FreshFids :
            requestUpload("u1", "p1", fileName, "image/png", 3, fileId, NoFault)
    \/ \E s3Key \in issued : uploadObject(s3Key)
    \/ \E fileId \in Fids : getDownloadUrl("p1", fileId, NoFault)
    \/ \E fileId \in Fids : confirmUpload_get(1, "u1", "p1", fileId, NoFault)
    \/ confirmUpload_probe(1, NoFault)
    \/ confirmUpload_write(1, NoFault)
    \/ confirmUpload_stats(1, NoFault)
    \/ \E fileId \in Fids : deleteFile_get(1, "u1", "p1", fileId, TRUE, NoFault)
    \/ deleteFile_s3(1, NoFault)
    \/ deleteFile_row(1, NoFault)
    \/ deleteFile_stats(1, NoFault)

SpecName == Init /\ [][NextName]_vars

\* Listing over tables that do not change.
NextPage ==
    \/ \E query \in FileQueries, fault \in Faults, atEnd \in BOOLEAN :
            listFiles("p1", query, fault, atEnd)
    \/ \E query \in ProjectQueries, fault \in Faults, atEnd \in BOOLEAN :
            listProjects("u1", query, fault, atEnd)
    \/ \E kind \in {"files", "projects"}, fault \in Faults, atEnd \in BOOLEAN :
         \E query \in WalkQueries(kind) :
            WalkFirst(kind, IF kind = "files" THEN "p1" ELSE "u1", query, fault, atEnd)
    \/ \E fault \in Faults, atEnd \in BOOLEAN : WalkNext(fault, atEnd)

SpecPage == InitPage /\ [][NextPage]_vars

Next ==
    \/ \E s3Key \in issued : uploadObject(s3Key)
    \/ \E userId \in Callers, name \in ProjectNames, description \in SomeDescription,
          projectId \in Pids, fault \in Faults :
            createProject(userId, name, description, projectId, fault)
    \/ \E userId \in Callers, projectId \in Pids, body \in UploadBodies, fileId \in Fids,
          fault \in Faults :
            requestUpload(userId, projectId, body.fileName, body.fileType, body.fileSize,
                          fileId, fault)
    \/ \E projectId \in Pids, fileId \in Fids, fault \in Faults :
            getDownloadUrl(projectId, fileId, fault)
    \/ \E projectId \in Pids, fileId \in Fids, fault \in Faults :
            getFileMetadata(projectId, fileId, fault)
    \/ \E s \in Slots, userId \in Callers, projectId \in Pids, fileId \in Fids, fault \in Faults :
            confirmUpload_get(s, userId, projectId, fileId, fault)
    \/ \E s \in Slots, fault \in Faults : confirmUpload_probe(s, fault)
    \/ \E s \in Slots, fault \in Faults : confirmUpload_write(s, fault)
    \/ \E s \in Slots, fault \in Faults : confirmUpload_stats(s, fault)
    \/ \E s \in Slots, userId \in Callers, projectId \in Pids, fileId \in Fids,
          hardDelete \in BOOLEAN, fault \in Faults :
            deleteFile_get(s, userId, projectId, fileId, hardDelete, fault)
    \/ \E s \in Slots, fault \in Faults : deleteFile_s3(s, fault)
    \/ \E s \in Slots, fault \in Faults : deleteFile_row(s, fault)
    \/ \E s \in Slots, fault \in Faults : deleteFile_soft(s, fault)
    \/ \E s \in Slots, fault \in Faults : deleteFile_stats(s, fault)

Spec == Init /\ [][Next]_vars

\* The project endpoints under concurrent requests of one caller, while time
\* passes.
NextProj ==
    \/ Tick
    \/ \E userId \in Callers, name \in ProjectNames, description \in Descriptions,
          projectId \in Pids, fault \in Faults :
            createProject(userId, name, description, projectId, fault)
    \/ \E userId \in Callers, projectId \in Pids, fault \in Faults :
            getProject(userId, projectId, fault)
    \/ \E s \in Slots, userId \in Callers, projectId \in Pids, body \in PatchBodies,
          fault \in Faults :
            updateProject_get(s, userId, projectId, body, fault)
    \/ \E s \in Slots, fault \in Faults : updateProject_update(s, fault)
    \/ \E s \in Slots, userId \in Callers, projectId \in Pids, fault \in Faults :
            deleteProject_get(s, userId, projectId, fault)
    \/ \E s \in Slots, fault \in Faults : deleteProject_update(s, fault)

SpecProj == Init /\ [][NextProj]_vars

\* The project methods of the metadata service called directly, next to the
\* endpoint that creates project rows.
NextService ==
    \/ Tick
    \/ \E userId \in Callers, name \in ProjectNames, description \in Descriptions,
          projectId \in ServicePids :
            createProject(userId, name, description, projectId, NoFault)
    \/ \E userId \in Callers, projectId \in ServicePids, updates \in ServiceUpdates :
            service_updateProject(userId, projectId, updates)
    \/ \E userId \in Callers, projectId \in ServicePids :
            service_deleteProject(userId, projectId)

SpecService == Init /\ [][NextService]_vars

\* Two owners use the project endpoints, each under its own identity; a list
\* request may carry a cursor that names the other owner's row.
Owners == {"u1", "u2"}
OwnerQueries(userId) ==
    [fileType : {<< >>}, status : {<< >>, <<"deleted">>}, limit : {<< >>},
     lastKey : {<< >>} \cup
               { << Base64Encode(JSONstringify(KeyAttrs("USER", "PROJECT", <<other, "p1">>))) >>
                   : other \in Owners \ {userId} }]

NextOwners ==
    \/ \E userId \in Owners, name \in ProjectNames, projectId \in Pids :
            createProject(userId, name, << >>, projectId, NoFault)
    \/ \E userId \in Owners, projectId \in Pids : getProject(userId, projectId, NoFault)
    \/ \E userId \in Owners : \E query \in OwnerQueries(userId) :
            listProjects(userId, query, NoFault, FALSE)
    \/ \E s \in Slots, userId \in Owners, projectId \in Pids, body \in PatchBodies :
            updateProject_get(s, userId, projectId, body, NoFault)
    \/ \E s \in Slots : updateProject_update(s, NoFault)
    \/ \E s \in Slots, userId \in Owners, projectId \in Pids :
            deleteProject_get(s, userId, projectId, NoFault)
    \/ \E s \in Slots : deleteProject_update(s, NoFault)

SpecOwners == Init /\ [][NextOwners]_vars

\* Caller u1 works on the files of a projectId whose project row is stored
\* under owner u2, under u1, under both or under neither.
NextCaller ==
    \/ \E s3Key \in issued : uploadObject(s3Key)
    \/ \E userId \in Owners, projectId \in Pids :
            createProject(userId, <<"a">>, << >>, projectId, NoFault)
    \/ \E userId \in Callers, projectId \in Pids, fileId \in Fids :
            requestUpload(userId, projectId, ValidName, "image/png", 3, fileId, NoFault)
    \/ \E s \in Slots, userId \in Callers, projectId \in Pids, fileId \in Fids :
            confirmUpload_get(s, userId, projectId, fileId, NoFault)
    \/ \E s \in Slots : confirmUpload_probe(s, NoFault)
    \/ \E s \in Slots : confirmUpload_write(s, NoFault)
    \/ \E s \in Slots : confirmUpload_stats(s, NoFault)
    \/ \E s \in Slots, userId \in Callers, projectId \in Pids, fileId \in Fids,
          hardDelete \in BOOLEAN :
            deleteFile_get(s, userId, projectId, fileId, hardDelete, NoFault)
    \/ \E s \in Slots : deleteFile_s3(s, NoFault)
    \/ \E s \in Slots : deleteFile_row(s, NoFault)
    \/ \E s \in Slots : deleteFile_soft(s, NoFault)
    \/ \E s \in Slots : deleteFile_stats(s, NoFault)

SpecCaller == Init /\ [][NextCaller]_vars

(***************************************************************************)
(* Error middleware                                                        *)
(***************************************************************************)
\* String.prototype.includes on names kept as sequences of characters
Includes(s, part) ==
    \E i \in 1..(Len(s) - Len(part) + 1) : SubSeq(s, i, i + Len(part) - 1) = part

\* the errors Express hands to the error handler: the handlers catch their
\* own, so these come from the body parser (malformed JSON, a body over the
\* 10mb limit) and from the router (a path parameter that does not decode)
MiddlewareErrors ==
    { [name |-> <<"S", "y", "n", "t", "a", "x", "E", "r", "r", "o", "r">>,
       apiError |-> FALSE, syntaxError |-> TRUE, body |-> TRUE],
      [name |-> <<"P", "a", "y", "l", "o", "a", "d", "T", "o", "o", "L", "a", "r", "g", "e",
                  "E", "r", "r", "o", "r">>,
       apiError |-> FALSE, syntaxError |-> FALSE, body |-> FALSE],
      [name |-> <<"U", "R", "I", "E", "r", "r", "o", "r">>,
       apiError |-> FALSE, syntaxError |-> FALSE, body |-> FALSE] }

\* errorHandler(err, req, res, next): the response it sends
errorHandler(err) ==
    LET r == [NewReq("errorHandler", "", "", "", FALSE) EXCEPT !.body = <<err>>]
        aws == \/ Includes(err.name, <<"E", "x", "c", "e", "p", "t", "i", "o", "n">>)
               \/ Includes(err.name, <<"E", "r", "r", "o", "r">>)
    IN  IF err.apiError THEN sendError(r, err.code, err.statusCode, "")
        ELSE IF err.name = <<"Z", "o", "d", "E", "r", "r", "o", "r">>
        THEN sendError(r, "VALIDATION_ERROR", 400, "")
        ELSE IF aws /\ Includes(err.name, <<"N", "o", "t", "F", "o", "u", "n", "d">>)
        THEN sendError(r, "NOT_FOUND", 404, "")
        ELSE IF aws /\ (\/ Includes(err.name, <<"A", "c", "c", "e", "s", "s",
                                                "D", "e", "n", "i", "e", "d">>)
                        \/ Includes(err.name, <<"F", "o", "r", "b", "i", "d", "d", "e", "n">>))
        THEN sendError(r, "ACCESS_DENIED", 403, "")
        ELSE IF aws /\ Includes(err.name, <<"T", "h", "r", "o", "t", "t", "l">>)
        THEN sendError(r, "INTERNAL_ERROR", 503, "")
        ELSE IF err.syntaxError /\ err.body
        THEN sendError(r, "VALIDATION_ERROR", 400, "")
        ELSE sendError(r, "INTERNAL_ERROR", 500, "")

\* a request that fails in the middleware before its handler runs
middlewareError(err) ==
    /\ last' = errorHandler(err)
    /\ UNCHANGED <<projects, files, objects, issued, clock, req, walk, frontend>>

\* notFoundHandler: a request that matches no route
notFoundHandler ==
    /\ last' = sendError(NewReq("notFoundHandler", "", "", "", FALSE), "NOT_FOUND", 404, "")
    /\ UNCHANGED <<projects, files, objects, issued, clock, req, walk, frontend>>

\* the list requests of SpecErr: a plain one, one with a limit below 1, one
\* with a cursor that does not decode
ErrQueries ==
    [fileType : {<< >>}, status : {<< >>}, limit : {<< >>, << <<"-", "1">> >>},
     lastKey : {<< >>, << [text |-> "%"] >>}]

\* Every endpoint of the service, one multi-step request at a time, with the
\* collaborators failing or not, and the requests that end in the middleware.
NextErr ==
    \/ \E err \in MiddlewareErrors : middlewareError(err)
    \/ notFoundHandler
    \/ \E s3Key \in issued : uploadObject(s3Key)
    \/ \E userId \in Callers, name \in ProjectNames, projectId \in Pids, fault \in Faults :
            createProject(userId, name, << >>, projectId, fault)
    \/ \E userId \in Callers, projectId \in Pids, fault \in Faults :
            getProject(userId, projectId, fault)
    \/ \E userId \in Callers, query \in ErrQueries, fault \in Faults :
            listProjects(userId, query, fault, FALSE)
    \/ \E userId \in Callers, projectId \in Pids, body \in PatchBodies, fault \in Faults :
            updateProject_get(1, userId, projectId, body, fault)
    \/ \E fault \in Faults : updateProject_update(1, fault)
    \/ \E userId \in Callers, projectId \in Pids, fault \in Faults :
            deleteProject_get(1, userId, projectId, fault)
    \/ \E fault \in Faults : deleteProject_update(1, fault)
    \/ \E userId \in Callers, projectId \in Pids, body \in UploadBodies, fileId \in Fids,
          fault \in Faults :
            requestUpload(userId, projectId, body.fileName, body.fileType, body.fileSize,
                          fileId, fault)
    \/ \E projectId \in Pids, fileId \in Fids, fault \in Faults :
            getDownloadUrl(projectId, fileId, fault)
    \/ \E projectId \in Pids, fileId \in Fids, fault \in Faults :
            getFileMetadata(projectId, fileId, fault)
    \/ \E projectId \in Pids, query \in ErrQueries, fault \in Faults :
            listFiles(projectId, query, fault, FALSE)
    \/ \E userId \in Callers, projectId \in Pids, fileId \in Fids, fault \in Faults :
            confirmUpload_get(1, userId, projectId, fileId, fault)
    \/ \E fault \in Faults : confirmUpload_probe(1, fault)
    \/ \E fault \in Faults : confirmUpload_write(1, fault)
    \/ \E fault \in Faults : confirmUpload_stats(1, fault)
    \/ \E userId \in Callers, projectId \in Pids, fileId \in Fids, hardDelete \in BOOLEAN,
          fault \in Faults :
            deleteFile_get(1, userId, projectId, fileId, hardDelete, fault)
    \/ \E fault \in Faults : deleteFile_s3(1, fault)
    \/ \E fault \in Faults : deleteFile_row(1, fault)
    \/ \E fault \in Faults : deleteFile_soft(1, fault)
    \/ \E fault \in Faults : deleteFile_stats(1, fault)

SpecErr == Init /\ [][NextErr]_vars
(***************************************************************************)
(* The viewer state hook: its callbacks, the timer callback, passing time  *)
(***************************************************************************)
backend == <<projects, files, objects, issued, clock, req, walk>>

\* a timer whose delay has elapsed runs before the next event is handled
TimersSettled == \A t \in timers.pending : time < t.due

\* the run of scale-changing calls after one more call: the call continues
\* the run when it comes less than ZOOM_LOG_DEBOUNCE_MS after the last one
burstAfterCall ==
    IF burst.phase = "open" /\ time - burst.last < ZOOM_LOG_DEBOUNCE_MS
    THEN [burst EXCEPT !.last = time]
    ELSE [phase |-> "open", start |-> viewer.scale, first |-> time, last |-> time]

\* setScale(newScale, cursorX, cursorY); the quotient by prevScale is exact
\* for the cursor the model passes
setScale(newScale, cursorX, cursorY) ==
    LET clampedScale == clampScale(newScale)
        prevScale == viewer.prevScaleRef
        startScale == IF viewer.zoomStartScaleRef = << >> THEN prevScale
                      ELSE viewer.zoomStartScaleRef[1]
        newX == cursorX - ((cursorX - viewer.position.x) * clampedScale) \div prevScale
        newY == cursorY - ((cursorY - viewer.position.y) * clampedScale) \div prevScale
        cleared == IF viewer.zoomDebounceRef # << >>
                   THEN clearTimeout(timers, viewer.zoomDebounceRef)
                   ELSE timers
        set == setTimeout(cleared, startScale, clampedScale, ZOOM_LOG_DEBOUNCE_MS)
    IN  /\ TimersSettled
        /\ timers.created < MaxTimers
        /\ Len(viewer.logs) + Cardinality(cleared.pending) < MaxLogs
        /\ last' = NoResponse
        /\ UNCHANGED <<backend, time>>
        /\ IF clampedScale = prevScale
           THEN UNCHANGED <<viewer, timers, burst>>
           ELSE /\ viewer' = [viewer EXCEPT !.zoomStartScaleRef = <<startScale>>,
                                            !.position = [x |-> newX, y |-> newY],
                                            !.scale = clampedScale,
                                            !.prevScaleRef = clampedScale,
                                            !.zoomDebounceRef = <<set.created>>]
                /\ timers' = set
                /\ burst' = burstAfterCall

\* the callback setScale hands to setTimeout, run by timer t
zoomLogCallback(t) ==
    /\ t \in timers.pending
    /\ t.due <= time
    /\ viewer' = [viewer EXCEPT
                    !.logs = addLog(@, IF t.clampedScale > t.startScale THEN "zoom_in"
                                       ELSE "zoom_out",
                                    [previousScale |-> t.startScale, scale |-> t.clampedScale]),
                    !.zoomStartScaleRef = << >>]
    /\ timers' = [timers EXCEPT !.pending = @ \ {t}]
    /\ burst' = IF burst.phase = "open" THEN [burst EXCEPT !.phase = "logged"] ELSE burst
    /\ last' = NoResponse
    /\ UNCHANGED <<backend, time>>

\* logPan(deltaX, deltaY)
logPan(deltaX, deltaY) ==
    /\ TimersSettled
    /\ Len(viewer.logs) + Cardinality(timers.pending) < MaxLogs
    /\ viewer' = [viewer EXCEPT !.logs = addLog(@, "pan", [deltaX |-> deltaX, deltaY |-> deltaY])]
    /\ last' = NoResponse
    /\ UNCHANGED <<backend, timers, time, burst>>

\* resetView(containerWidth, containerHeight, imageWidth, imageHeight)
resetView(containerWidth, containerHeight, imageWidth, imageHeight) ==
    LET centerX == (containerWidth - imageWidth) \div 2
        centerY == (containerHeight - imageHeight) \div 2
    IN  /\ TimersSettled
        /\ Len(viewer.logs) < MaxLogs
        /\ timers' = IF viewer.zoomDebounceRef # << >>
                     THEN clearTimeout(timers, viewer.zoomDebounceRef)
                     ELSE timers
        /\ viewer' = [viewer EXCEPT !.zoomDebounceRef = << >>,
                                    !.zoomStartScaleRef = << >>,
                                    !.baseScaleRef = initialScale,
                                    !.scale = initialScale,
                                    !.prevScaleRef = initialScale,
                                    !.position = [x |-> centerX, y |-> centerY],
                                    !.logs = addLog(@, "reset", [scale |-> initialScale])]
        /\ burst' = IF burst.phase = "open" THEN [burst EXCEPT !.phase = "cancelled"] ELSE burst
        /\ last' = NoResponse
        /\ UNCHANGED <<backend, time>>

\* d milliseconds pass; no timer is left waiting beyond its delay
Elapse(d) ==
    /\ time + d <= MaxTime
    /\ \A t \in timers.pending : time + d <= t.due
    /\ time' = time + d
    /\ last' = NoResponse
    /\ UNCHANGED <<backend, viewer, timers, burst>>

NextViewer ==
    \/ \E newScale \in NewScales : setScale(newScale, 0, 0)
    \/ \E t \in timers.pending : zoomLogCallback(t)
    \/ logPan(5, 0)
    \/ resetView(800, 600, 800, 600)
    \/ \E d \in Delays : Elapse(d)

SpecViewer == Init /\ [][NextViewer]_vars

(***************************************************************************)
(* Properties of the file life cycle (Spec)                                *)
(***************************************************************************)
FileKey(r) == <<r.projectId, r.fileId>>

\* slot s takes a step of handler op
Steps(s, op) == req[s].op = op /\ req'[s] # req[s]

\* the step is one whole run of the single-call handler op
Served(op) == last'.op = op /\ req' = req

\* C1: a create request of either kind (project: owner+projectId, file:
\* projectId+fileId) succeeds only in a step that finds no row with that
\* identity and puts one, so of the creators of one identity at most one
\* succeeds, however they interleave.
C1_CreateOnlyWhenAbsent ==
    [][ /\ (Served("createProject") /\ last'.status = 201)
            => /\ <<last'.userId, last'.projectId>> \notin DOMAIN projects
               /\ <<last'.userId, last'.projectId>> \in DOMAIN projects'
        /\ (Served("requestUpload") /\ last'.status = 201)
            => /\ FileKey(last') \notin DOMAIN files
               /\ FileKey(last') \in DOMAIN files'
        /\ (Served("createProject") /\ <<last'.userId, last'.projectId>> \in DOMAIN projects)
            => last'.status # 201 /\ projects' = projects
        /\ (Served("requestUpload") /\ FileKey(last') \in DOMAIN files)
            => last'.status # 201 /\ files' = files ]_vars

\* a second creator of a file identity was rejected by the conditional write
C1_Witness ==
    /\ last.op = "requestUpload"
    /\ last.err = "ConditionalCheckFailedException"
    /\ FileKey(last) \in DOMAIN files

\* C2: a createProject whose request is well formed and whose store answers,
\* attempted for an owner+projectId that already has a row, is answered 409
\* PROJECT_ALREADY_EXISTS and leaves every attribute of every project row as
\* it was.
C2_CollisionIsConflict ==
    [][ ( /\ Served("createProject")
          /\ <<last'.userId, last'.projectId>> \in DOMAIN projects
          /\ last'.code # "VALIDATION_ERROR"
          /\ last'.err \notin CollabErrors )
        => /\ last'.status = 409
           /\ last'.code = "PROJECT_ALREADY_EXISTS"
           /\ projects' = projects ]_vars

\* a create collided with a row that was since archived and renamed, and the
\* row still is
C2_Witness ==
    /\ last.op = "createProject"
    /\ last.status = 409
    /\ <<last.userId, last.projectId>> \in DOMAIN projects
    /\ projects[<<last.userId, last.projectId>>].status = "archived"
    /\ projects[<<last.userId, last.projectId>>].name = <<"b">>

\* the project row a request or response r is about
ProjectKey(r) == <<r.userId, r.projectId>>

\* C11: while a project row has status deleted, a GET, PATCH or DELETE of it
\* by its owner is answered in its first step, 404 PROJECT_NOT_FOUND when the
\* read of the row answered, and the step leaves every project row as it was;
\* no PATCH or DELETE of it passes its status check.
C11_DeletedProjectNotFound ==
    [][ /\ \A op \in {"getProject", "updateProject", "deleteProject"} :
             ( /\ Served(op)
               /\ ProjectKey(last') \in DOMAIN projects
               /\ projects[ProjectKey(last')].status = "deleted" )
             => /\ projects' = projects
                /\ last'.err = "" => (last'.status = 404 /\ last'.code = "PROJECT_NOT_FOUND")
        /\ \A s \in Slots :
             ( /\ req[s].op = "idle"
               /\ req'[s].op \in {"updateProject", "deleteProject"} )
             => projects[ProjectKey(req'[s])].status # "deleted" ]_vars

\* a PATCH of a deleted project was answered 404 and the row is still deleted
C11_Witness ==
    /\ last.op = "updateProject"
    /\ last.status = 404
    /\ last.meta # << >>
    /\ projects[ProjectKey(last)].status = "deleted"

\* C12: a project row whose status is deleted keeps its status, name and
\* description in every step, the update of a PATCH that passed its checks
\* before the DELETE included.
C12_DeletedIsAbsorbing ==
    [][ \A k \in DOMAIN projects :
          projects[k].status = "deleted"
          => /\ projects'[k].status = "deleted"
             /\ projects'[k].name = projects[k].name
             /\ ("description" \in DOMAIN projects'[k]) = ("description" \in DOMAIN projects[k])
             /\ "description" \in DOMAIN projects[k]
                   => projects'[k].description = projects[k].description ]_vars

\* the rows of a list response
ListedRows(resp) == IF resp.op = "listFiles" THEN resp.data[1].files ELSE resp.data[1].projects

\* C3: a listProjects or listFiles answered 200 to a request without a
\* status filter (the parameter absent or empty) carries no row whose status
\* is deleted, whatever its fileType, limit and lastKey.
C3_NoDeletedUnlessAsked ==
    ( /\ last.op \in {"listFiles", "listProjects"}
      /\ last.status = 200
      /\ last.body[1].status \in {<< >>, <<"">>} )
    => \A i \in 1..Len(ListedRows(last)) :
          ~("status" \in DOMAIN ListedRows(last)[i] /\ ListedRows(last)[i].status = "deleted")

\* a list of files with fileType, limit and lastKey but no status returned a
\* row from a partition that holds a deleted row of that fileType
C3_Witness ==
    /\ last.op = "listFiles"
    /\ last.status = 200
    /\ last.body[1].status = << >>
    /\ last.body[1].limit # << >>
    /\ last.body[1].lastKey # << >>
    /\ Len(last.data[1].files) = 1
    /\ \E k \in DOMAIN files : files[k].status = "deleted"

\* C4: a confirm whose row was read pending and whose probe finds no object at
\* the row's key ends there with an error, 400 VALIDATION_ERROR when the probe
\* answered, and writes neither the file row nor any project counter.
C4_ConfirmWithoutObject ==
    [][ \A s \in Slots :
          LET r == req[s] IN
          ( /\ Steps(s, "confirmUpload") /\ r.pc = "probe"
            /\ "s3Key" \in DOMAIN r.meta[1]
            /\ r.meta[1].status = "pending"
            /\ r.meta[1].s3Key \notin objects )
          => /\ req'[s] = IdleReq
             /\ last'.op = "confirmUpload"
             /\ last'.status >= 400
             /\ last'.err = "" => (last'.status = 400 /\ last'.code = "VALIDATION_ERROR")
             /\ files' = files
             /\ projects' = projects ]_vars

\* a confirm was refused for want of the object and the row is still pending
C4_Witness ==
    /\ last.op = "confirmUpload"
    /\ last.status = 400
    /\ last.meta[1].status = "pending"
    /\ FileKey(last) \in DOMAIN files
    /\ files[FileKey(last)].status = "pending"

\* C5: a confirm that read the row pending or already uploaded and whose probe
\* finds the object goes on to the status write; the write, unless the store
\* fails, leaves the row uploaded; and the request then answers 200 with the
\* row as written, whatever becomes of the counter adjustment.
C5_ConfirmUploads ==
    [][ \A s \in Slots :
          LET r == req[s] IN
          ( /\ Steps(s, "confirmUpload")
            /\ r.pc \in {"probe", "write", "stats"}
            /\ r.meta[1].status \in {"pending", "uploaded"} )
          => /\ ( /\ r.pc = "probe" /\ last'.err = ""
                  /\ "s3Key" \in DOMAIN r.meta[1] /\ r.meta[1].s3Key \in objects )
                => req'[s].pc = "write"
             /\ (r.pc = "write" /\ last'.err = "")
                => /\ FileKey(r) \in DOMAIN files'
                   /\ files'[FileKey(r)].status = "uploaded"
                   /\ req'[s].pc = "stats"
             /\ r.pc = "stats"
                => /\ last'.status = 200
                   /\ last'.data[1].status = "uploaded"
                   /\ files' = files ]_vars

\* a confirm of a row that was already uploaded succeeded
C5_Witness ==
    /\ last.op = "confirmUpload"
    /\ last.status = 200
    /\ last.meta[1].status = "uploaded"
    /\ files[FileKey(last)].status = "uploaded"

AllowedStatusChanges ==
    {<<"pending", "uploaded">>, <<"pending", "deleted">>, <<"uploaded", "deleted">>}

\* C6: the status of a file row changes only along pending -> uploaded,
\* pending -> deleted, uploaded -> deleted (or the row is removed).
C6_StatusTransitions ==
    [][ \A k \in DOMAIN files :
          k \in DOMAIN files'
          => \/ files'[k].status = files[k].status
             \/ <<files[k].status, files'[k].status>> \in AllowedStatusChanges ]_vars

\* C7: the row deletion of a hard delete leaves no row, so that a metadata or
\* download fetch finding no row answers 404; the object deletion it made
\* before is the one call of the request, for the key of the row it read; and
\* the request answers 200.
C7_HardDeleteRemoves ==
    [][ /\ \A s \in Slots :
             LET r == req[s] IN
             (Steps(s, "deleteFile") /\ r.hard)
             => /\ (r.pc = "s3" /\ last'.err = "")
                   => /\ r.meta[1].s3Key \notin objects'
                      /\ req'[s].nDel = r.nDel + 1
                /\ (r.pc = "row" /\ last'.err = "")
                   => /\ FileKey(r) \notin DOMAIN files'
                      /\ r.nDel = 1
                /\ r.pc = "stats"
                   => /\ last'.status = 200
                      /\ last'.nDel = 1
                      /\ files' = files /\ objects' = objects
        /\ ( /\ Served("getFileMetadata") \/ Served("getDownloadUrl")
             /\ last'.err = ""
             /\ FileKey(last') \notin DOMAIN files )
           => last'.status = 404 /\ last'.code = "FILE_NOT_FOUND" ]_vars

\* a hard delete has answered 200 and the row is gone
C7_Witness ==
    /\ last.op = "deleteFile" /\ last.hard
    /\ last.status = 200
    /\ last.nDel = 1
    /\ FileKey(last) \notin DOMAIN files

\* C8: the status write of a confirm or a soft delete in flight does not make
\* a row exist where there is none (a hard delete having removed it).
C8_RemovedRowStaysAbsent ==
    [][ \A s \in Slots :
          LET r == req[s] IN
          ( /\ Steps(s, "confirmUpload") \/ Steps(s, "deleteFile")
            /\ r.pc \in {"write", "soft"}
            /\ FileKey(r) \notin DOMAIN files )
          => FileKey(r) \notin DOMAIN files' ]_vars

\* C9: a soft delete calls no object deletion and its status write leaves the
\* row in the table with status deleted; a download or metadata fetch, and a
\* further soft delete, that find the row deleted answer 404.
C9_SoftDeleteHides ==
    [][ /\ \A s \in Slots :
             LET r == req[s] IN
             (Steps(s, "deleteFile") /\ ~r.hard)
             => /\ objects' = objects
                /\ req'[s].nDel = 0
                /\ (r.pc = "soft" /\ last'.err = "")
                   => /\ FileKey(r) \in DOMAIN files'
                      /\ files'[FileKey(r)].status = "deleted"
                /\ r.pc = "stats" => (last'.status = 200 /\ last'.nDel = 0)
        /\ ( /\ \/ Served("getFileMetadata")
                \/ Served("getDownloadUrl")
                \/ (Served("deleteFile") /\ ~last'.hard)
             /\ last'.err = ""
             /\ FileKey(last') \in DOMAIN files
             /\ files[FileKey(last')].status = "deleted" )
           => /\ last'.status = 404 /\ last'.code = "FILE_NOT_FOUND"
              /\ files' = files /\ objects' = objects ]_vars

\* a download was refused with 404 while the soft-deleted row is in the table
C9_Witness ==
    /\ last.op = "getDownloadUrl"
    /\ last.status = 404
    /\ FileKey(last) \in DOMAIN files
    /\ files[FileKey(last)].status = "deleted"
    /\ files[FileKey(last)].s3Key \in objects

\* the sort keys of the rows of the walk's partition that its filters select
WalkMatching ==
    LET t == IF walk.kind = "files" THEN files ELSE projects
        q == walk.query
        Selected(item) ==
            /\ (walk.kind = "files" /\ q.fileType # << >>) => item.fileType = q.fileType[1]
            /\ IF q.status \in {<< >>, <<"">>} THEN item.status # "deleted"
               ELSE item.status = q.status[1]
    IN  {k[2] : k \in {j \in DOMAIN t : j[1] = walk.partition /\ Selected(t[j])}}

\* C10: over rows that do not change, a client that lists with limit k and
\* then follows each returned nextKey never receives a row twice nor a row
\* its filters do not select, receives a page without nextKey after at most
\* one request more than the partition has rows, and has then received every
\* selected row.
C10_PaginationComplete ==
    walk.phase # "none" =>
        /\ \A i, j \in 1..Len(walk.seen) : walk.seen[i] = walk.seen[j] => i = j
        /\ {walk.seen[i] : i \in 1..Len(walk.seen)} \subseteq WalkMatching
        /\ walk.phase = "done" => {walk.seen[i] : i \in 1..Len(walk.seen)} = WalkMatching
        /\ walk.phase = "walking" => walk.query.lastKey # << >>
        /\ walk.pages <= Cardinality({k \in DOMAIN files \cup DOMAIN projects :
                                         k[1] = walk.partition}) + 1

\* a walk with limit 1 over a partition of three rows, two of them selected
\* around one that is not, ended after more than two pages
C10_Witness ==
    /\ walk.phase = "done"
    /\ walk.kind = "files"
    /\ walk.query.limit = << <<"1">> >>
    /\ walk.seen = <<"f1", "f3">>
    /\ <<"p1", "f2">> \in DOMAIN files
    /\ walk.pages >= 3

\* the counters of project row k in table t
Counters(t, k) == <<t[k].fileCount, t[k].totalSize>>

\* slot s takes the step that awaits updateProjectStats
Adjusts(s) ==
    /\ Steps(s, "confirmUpload") \/ Steps(s, "deleteFile")
    /\ req[s].pc = "stats"

\* the deltas the adjustment of request r asks for
Deltas(r) ==
    IF r.op = "confirmUpload" THEN <<1, r.meta[1].fileSize>> ELSE <<-1, -r.meta[1].fileSize>>

\* C13: every adjustment that succeeds adds its deltas to the counters the
\* row holds at that step, whatever other confirm and delete requests are in
\* flight or have adjusted since the request began; an adjustment that fails
\* and every other step leave the counters of existing rows as they are.  So
\* after any interleaving the counters are the initial values plus the deltas
\* of the adjustments that succeeded.
C13_NoLostAdjustment ==
    [][ /\ \A s \in Slots :
             Adjusts(s) =>
                LET k == ProjectKey(req[s]) IN
                IF last'.err = ""
                THEN /\ k \in DOMAIN projects
                     /\ projects'[k].fileCount = projects[k].fileCount + Deltas(req[s])[1]
                     /\ projects'[k].totalSize = projects[k].totalSize + Deltas(req[s])[2]
                     /\ \A j \in DOMAIN projects \ {k} : projects'[j] = projects[j]
                ELSE projects' = projects
        /\ (\A s \in Slots : ~Adjusts(s))
             => \A k \in DOMAIN projects :
                   k \in DOMAIN projects' /\ Counters(projects', k) = Counters(projects, k) ]_vars

\* the adjustment of a confirm has landed while a delete that began before it
\* is about to adjust the same row
C13_Witness ==
    /\ last.op = "confirmUpload"
    /\ last.status = 200
    /\ last.err = ""
    /\ ProjectKey(last) \in DOMAIN projects
    /\ projects[ProjectKey(last)].fileCount = 1
    /\ \E s \in Slots : /\ req[s].op = "deleteFile" /\ req[s].pc = "stats"
                        /\ ProjectKey(req[s]) = ProjectKey(last)

\* C14: a confirm, soft delete or hard delete whose counter adjustment is
\* rejected is answered 200 all the same, and that step changes no file row,
\* no object and no project row: the status written or the removal done
\* before it stays.
C14_AdjustmentFailureSwallowed ==
    [][ \A s \in Slots :
          (Adjusts(s) /\ last'.err # "")
          => /\ last'.status = 200
             /\ last'.op = req[s].op
             /\ req'[s] = IdleReq
             /\ files' = files
             /\ objects' = objects
             /\ projects' = projects ]_vars

\* a hard delete was answered 200 though the project has no row to adjust,
\* and the file row and the object are gone
C14_Witness ==
    /\ last.op = "deleteFile"
    /\ last.hard
    /\ last.status = 200
    /\ last.err = "ValidationException"
    /\ ProjectKey(last) \notin DOMAIN projects
    /\ FileKey(last) \notin DOMAIN files
    /\ last.meta[1].s3Key \notin objects

\* C20: the adjustment of a delete subtracts one file and the file's size
\* from the counters whether or not the file was ever confirmed and whatever
\* the counters are, so they go below zero.
C20_DeleteSubtractsUnconfirmed ==
    [][ \A s \in Slots :
          ( /\ Adjusts(s) /\ req[s].op = "deleteFile"
            /\ last'.err = ""
            /\ req[s].meta[1].status = "pending" )
          => LET k == ProjectKey(req[s]) IN
             /\ projects'[k].fileCount = projects[k].fileCount - 1
             /\ projects'[k].totalSize = projects[k].totalSize - req[s].meta[1].fileSize ]_vars

\* after create project, request upload and a delete of the pending file the
\* counters are -1 and minus the file size
C20_Witness ==
    /\ last.op = "deleteFile"
    /\ last.status = 200
    /\ last.meta[1].status = "pending"
    /\ ProjectKey(last) \in DOMAIN projects
    /\ projects[ProjectKey(last)].fileCount = -1
    /\ projects[ProjectKey(last)].totalSize = -3

\* C15: a response to a request during which a collaborator call failed with
\* a throttling error has status 503.
C15_ThrottlingIs503 ==
    last.err \in CollabErrors => last.status = 503

\* the response is of one of the list endpoints
IsList(resp) == resp.op \in {"listFiles", "listProjects"}

\* C16: whatever the limit parameter of a list request, the handler passes
\* the store a limit that is an integer from 1 to 100, and 50 when the
\* parameter is absent.
C16_LimitWithinRange ==
    IsList(last) =>
        LET limit == listOptions(last.body[1]).limit
        IN  /\ limit # << >>
            /\ limit[1] \in 1..MaxLimit
            /\ last.body[1].limit = << >> => limit[1] = DefaultLimit

\* the cursor is the base64 of the JSON of an object with the key attributes
IsContinuationKey(cursor) ==
    /\ "base64" \in DOMAIN cursor
    /\ "json" \in DOMAIN cursor.base64
    /\ DOMAIN cursor.base64.json = {"PK", "SK"}

\* the response to the request of resp had it carried no lastKey
WithoutCursor(resp, atEnd) ==
    IF resp.op = "listFiles"
    THEN listFilesResponse(resp.projectId, [resp.body[1] EXCEPT !.lastKey = << >>], NoFault, atEnd)
    ELSE listProjectsResponse(resp.userId, [resp.body[1] EXCEPT !.lastKey = << >>], NoFault, atEnd)

\* C17: a list request whose lastKey is no continuation key (text that does
\* not decode, or the encoding of another JSON value), and that would succeed
\* without it, is answered 200 with the page the request without lastKey gets.
C17_BadCursorIgnored ==
    ( /\ IsList(last)
      /\ last.body[1].lastKey # << >>
      /\ ~IsContinuationKey(last.body[1].lastKey[1])
      /\ last.err \notin CollabErrors
      /\ WithoutCursor(last, FALSE).status = 200 )
    => /\ last.status = 200
       /\ \E atEnd \in BOOLEAN : last.data = WithoutCursor(last, atEnd).data

\* the step is a request-upload answered 201
Uploads == Served("requestUpload") /\ last'.status = 201

\* C19: the file name request-upload stores, sanitizeFileName of the name in
\* the request, has only characters of [A-Za-z0-9._-], has the lower-cased
\* extension of the request's name as its extension, and is in lower case.
C19_SanitizedSafeLower ==
    [][ Uploads =>
          LET fileName == last'.body[1].fileName
              stored == files'[FileKey(last')].fileName
          IN  /\ stored = sanitizeFileName(fileName)
              /\ \A i \in 1..Len(stored) : stored[i] \in SafeChars
              /\ Extname(stored) = ToLowerCase(Extname(Basename(fileName)))
              /\ stored = ToLowerCase(stored) ]_vars

DerivedKey(k, row) == <<k[1], k[2], ReplaceUnsafe(row.fileName)>>

C21_NoDeduplication ==
    [][ \A s \in Slots :
          (Adjusts(s) /\ last'.err = "") =>
             LET k == ProjectKey(req[s])
                 m == req[s].meta[1]
             IN  /\ (req[s].op = "confirmUpload" /\ m.status = "uploaded")
                      => Counters(projects', k) =
                           <<projects[k].fileCount + 1, projects[k].totalSize + m.fileSize>>
                 /\ (req[s].op = "deleteFile" /\ m.status = "deleted")
                      => /\ req[s].hard
                         /\ Counters(projects', k) =
                              <<projects[k].fileCount - 1, projects[k].totalSize - m.fileSize>> ]_vars

\* one file, confirmed a second time while its row already read "uploaded",
\* is counted twice
C21_Witness ==
    /\ last.op = "confirmUpload"
    /\ last.status = 200
    /\ last.err = ""
    /\ last.meta[1].status = "uploaded"
    /\ Cardinality(DOMAIN files) = 1
    /\ ProjectKey(last) \in DOMAIN projects
    /\ Counters(projects, ProjectKey(last)) = <<2, 2 * last.meta[1].fileSize>>

\* C22: the steps of one confirm request run in a fixed order.  The request
\* begins with the lookup; the probe runs only on a row that was found; the
\* status is written only in the step after a probe that answered true; the
\* counter adjustment is attempted only in the step after a status write that
\* succeeded.  A lookup, probe or status write that fails ends the request
\* with an error, so none of the later steps runs, and no step before the
\* status write changes a file row or a project row.
C22_ConfirmStepOrder ==
    [][ \A s \in Slots :
          /\ (req[s].op = "idle" /\ req'[s].op = "confirmUpload")
               => /\ req'[s].pc = "probe"
                  /\ req'[s].meta = <<files[FileKey(req'[s])]>>
                  /\ files' = files /\ projects' = projects
          /\ Served("confirmUpload")
               => /\ last'.status \in {404, 500}
                  /\ files' = files /\ projects' = projects
          /\ (Steps(s, "confirmUpload") /\ req[s].pc = "probe")
               => /\ files' = files /\ projects' = projects
                  /\ IF last'.err = "" /\ req[s].meta[1].s3Key \in objects
                     THEN req'[s].op = "confirmUpload" /\ req'[s].pc = "write"
                     ELSE req'[s] = IdleReq /\ last'.status \in {400, 500}
          /\ (Steps(s, "confirmUpload") /\ req[s].pc = "write")
               => /\ projects' = projects
                  /\ IF last' = NoResponse
                     THEN /\ req'[s].op = "confirmUpload" /\ req'[s].pc = "stats"
                          /\ files'[FileKey(req[s])].status = "uploaded"
                     ELSE /\ req'[s] = IdleReq /\ last'.status = 500
                          /\ files' = files
          /\ (Steps(s, "confirmUpload") /\ req[s].pc = "stats")
               => /\ files' = files
                  /\ req'[s] = IdleReq ]_vars

\* a confirm has found the row, seen the object and written "uploaded", and
\* its counter adjustment has not run yet
C22_Witness ==
    \E s \in Slots :
        /\ req[s].op = "confirmUpload"
        /\ req[s].pc = "stats"
        /\ req[s].meta[1].status = "pending"
        /\ req[s].meta[1].s3Key \in objects
        /\ files[FileKey(req[s])].status = "uploaded"
        /\ ProjectKey(req[s]) \in DOMAIN projects
        /\ projects[ProjectKey(req[s])].fileCount = 0

\* C23: no file endpoint looks for or creates a project row.  A step of
\* request-upload, confirm or delete leaves the set of project rows as it was,
\* whether or not a row exists for the projectId, and the only step that
\* changes the set is a create-project request that answers 201.
C23_OnlyCreateProjectAddsRows ==
    [][ /\ (DOMAIN projects' # DOMAIN projects)
             => /\ Served("createProject")
                /\ last'.status = 201
                /\ DOMAIN projects' = DOMAIN projects \cup {ProjectKey(last')}
        /\ Served("requestUpload") => projects' = projects
        /\ \A s \in Slots :
             (Steps(s, "confirmUpload") \/ Steps(s, "deleteFile")
                \/ (req[s].op = "idle" /\ req'[s].op \in {"confirmUpload", "deleteFile"}))
               => /\ DOMAIN projects' = DOMAIN projects
                  /\ (ProjectKey(req[s]) \notin DOMAIN projects => projects' = projects) ]_vars

\* with no project row at all a file was requested, uploaded, confirmed and
\* then deleted, each with a success answer
C23_Witness ==
    /\ projects = EmptyItem
    /\ last.op = "deleteFile"
    /\ last.status = 200
    /\ last.meta[1].status = "uploaded"
    /\ FileKey(last) \in DOMAIN files
    /\ files[FileKey(last)].status = "deleted"

\* the upload body breaks a rule: empty or blank name, empty type, a type
\* outside the allow-list, a size that is not positive, a size over the limit
InvalidUpload(b) ==
    \/ \A i \in DOMAIN b.fileName : b.fileName[i] = " "
    \/ b.fileType = ""
    \/ b.fileType \notin AllowedMimeTypes
    \/ b.fileSize <= 0
    \/ b.fileSize > MaxFileSize

\* C26: a request-upload whose body breaks a validation rule is answered 400
\* with VALIDATION_ERROR, and that request creates no file row and issues no
\* signed URL.
C26_InvalidUploadRejected ==
    [][ (Served("requestUpload") /\ InvalidUpload(last'.body[1]))
          => /\ last'.status = 400
             /\ last'.code = "VALIDATION_ERROR"
             /\ last'.data = << >>
             /\ files' = files
             /\ issued' = issued ]_vars

\* a request for a file one byte over the size limit was turned down
C26_Witness ==
    /\ last.op = "requestUpload"
    /\ last.status = 400
    /\ last.body[1].fileSize = MaxFileSize + 1
    /\ FileKey(last) \notin DOMAIN files
    /\ issued = {}

\* C28: a hard delete attempts the object deletion first: its first step
\* after the lookup is the object deletion, which touches no file row and no
\* project row, and a file row is removed only in the step after an object
\* deletion that succeeded.  When the object deletion fails the request ends
\* there with status 500, so the file row stays as it was and no counter is
\* adjusted.
C28_ObjectBeforeRow ==
    [][ \A s \in Slots :
          /\ (req[s].op = "idle" /\ req'[s].op = "deleteFile" /\ req'[s].hard)
               => req'[s].pc = "s3"
          /\ (Steps(s, "deleteFile") /\ req[s].pc = "s3")
               => /\ req[s].hard
                  /\ files' = files
                  /\ projects' = projects
                  /\ IF last' = NoResponse
                     THEN /\ req'[s].pc = "row"
                          /\ req[s].meta[1].s3Key \notin objects'
                     ELSE /\ req'[s] = IdleReq
                          /\ last'.status = 500
                          /\ last'.code = "INTERNAL_ERROR"
          /\ (Steps(s, "deleteFile") /\ req[s].hard /\ files' # files)
               => /\ req[s].pc = "row"
                  /\ req[s].nDel = 1 ]_vars

\* the object deletion of a hard delete of a confirmed file failed: the
\* answer is 500, and the row, the object and the counters are as before
C28_Witness ==
    /\ last.op = "deleteFile"
    /\ last.hard
    /\ last.status = 500
    /\ last.meta # << >>
    /\ last.nDel = 0
    /\ FileKey(last) \in DOMAIN files
    /\ files[FileKey(last)] = last.meta[1]
    /\ last.meta[1].status = "uploaded"
    /\ last.meta[1].s3Key \in objects
    /\ ProjectKey(last) \in DOMAIN projects
    /\ Counters(projects, ProjectKey(last)) = <<1, last.meta[1].fileSize>>

\* C24: DynamoDBService.updateProject, and deleteProject which delegates to
\* it, called for an owner and projectId that have no row resolves to null and
\* creates no row.
C24_AbsentProjectIsNull ==
    [][ ( /\ last'.op \in {"service.updateProject", "service.deleteProject"}
          /\ ProjectKey(last') \notin DOMAIN projects )
          => /\ last'.data = << >>
             /\ projects' = projects ]_vars

\* the project rows of owners other than userId are in t2 what they are in t1
OthersUntouched(t1, t2, userId) ==
    /\ \A k \in DOMAIN t1 : k[1] # userId => (k \in DOMAIN t2 /\ t2[k] = t1[k])
    /\ \A k \in DOMAIN t2 : k[1] # userId => k \in DOMAIN t1

\* C27: the project endpoints are isolated per owner.  Every step of a
\* request by caller u leaves the rows of every other owner as they were; a
\* list answers only rows stored under u; a GET answers the row stored under
\* u; and a GET, PATCH or DELETE of a projectId that has no row under u, a row
\* under another owner or not, is answered 404 PROJECT_NOT_FOUND in its first
\* step and changes nothing.
C27_OwnerIsolation ==
    [][ /\ \A op \in {"createProject", "getProject", "listProjects",
                      "updateProject", "deleteProject"} :
             Served(op) => OthersUntouched(projects, projects', last'.userId)
        /\ \A s \in Slots :
             /\ (Steps(s, "updateProject") \/ Steps(s, "deleteProject"))
                  => OthersUntouched(projects, projects', req[s].userId)
             /\ (req[s].op = "idle" /\ req'[s].op \in {"updateProject", "deleteProject"})
                  => /\ ProjectKey(req'[s]) \in DOMAIN projects
                     /\ projects' = projects
        /\ (Served("listProjects") /\ last'.status = 200)
             => \A i \in 1..Len(ListedRows(last')) :
                   \E k \in DOMAIN projects :
                      /\ k[1] = last'.userId
                      /\ ListedRows(last')[i] =
                           SetAttrs(projects[k], KeyAttrs("USER", "PROJECT", k))
        /\ (Served("getProject") /\ last'.status = 200)
             => /\ ProjectKey(last') \in DOMAIN projects
                /\ last'.data = <<projects[ProjectKey(last')]>>
        /\ \A op \in {"getProject", "updateProject", "deleteProject"} :
             (Served(op) /\ ProjectKey(last') \notin DOMAIN projects)
               => /\ last'.status = 404
                  /\ last'.code = "PROJECT_NOT_FOUND"
                  /\ projects' = projects ]_vars

\* a PATCH by u1 of a projectId that has a row only under u2 was answered 404
C27_Witness ==
    /\ last.op = "updateProject"
    /\ last.userId = "u1"
    /\ last.status = 404
    /\ <<"u1", last.projectId>> \notin DOMAIN projects
    /\ <<"u2", last.projectId>> \in DOMAIN projects
    /\ projects[<<"u2", last.projectId>>].status = "active"

\* C29: the counter adjustment of a confirm or delete goes to the project
\* row keyed by the calling user.  Every step of a confirm or delete by
\* caller u leaves the project rows of every other owner as they were,
\* fileCount, totalSize and updatedAt included; and when u has no row for the
\* projectId the request is still answered 200 after its status write or
\* removal, and no project row changes.
C29_AdjustsCallersRow ==
    [][ \A s \in Slots :
          /\ (Steps(s, "confirmUpload") \/ Steps(s, "deleteFile"))
               => OthersUntouched(projects, projects', req[s].userId)
          /\ (Adjusts(s) /\ ProjectKey(req[s]) \notin DOMAIN projects)
               => /\ last'.status = 200
                  /\ projects' = projects
                  /\ files' = files ]_vars

\* u1 confirmed a file of a project that only u2 has a row for: the file
\* reads "uploaded", and u2's row still has its counters at zero
C29_Witness ==
    /\ last.op = "confirmUpload"
    /\ last.userId = "u1"
    /\ last.status = 200
    /\ files[FileKey(last)].status = "uploaded"
    /\ <<"u1", last.projectId>> \notin DOMAIN projects
    /\ <<"u2", last.projectId>> \in DOMAIN projects
    /\ Counters(projects, <<"u2", last.projectId>>) = <<0, 0>>

\* the zoom entries of a log
IsZoom(entry) == entry.action \in {"zoom_in", "zoom_out"}

\* C30: a run of scale-changing setScale calls, each less than
\* ZOOM_LOG_DEBOUNCE_MS after the one before, is logged once.  While the run
\* is open its timer is pending and time never passes the last call by more
\* than ZOOM_LOG_DEBOUNCE_MS; a step that appends a zoom entry appends one
\* entry, ZOOM_LOG_DEBOUNCE_MS after the run's last call, to a run that is
\* open (so neither logged already nor cancelled), with previousScale the
\* scale before the run's first call and scale the clamped scale the viewer
\* has; a resetView cancels the open run, leaves no timer pending and appends
\* the reset entry, so every zoom entry after a reset entry belongs to a run
\* that began after it.
C30_OneZoomEntryPerBurst ==
    [][ /\ (burst'.phase = "open")
             => /\ time' <= burst'.last + ZOOM_LOG_DEBOUNCE_MS
                /\ \E t \in timers'.pending : t.due = burst'.last + ZOOM_LOG_DEBOUNCE_MS
        /\ (viewer'.logs # viewer.logs)
             => /\ Len(viewer'.logs) = Len(viewer.logs) + 1
                /\ SubSeq(viewer'.logs, 1, Len(viewer.logs)) = viewer.logs
        /\ (viewer'.logs # viewer.logs /\ IsZoom(viewer'.logs[Len(viewer'.logs)]))
             => LET entry == viewer'.logs[Len(viewer'.logs)] IN
                /\ burst.phase = "open"
                /\ burst'.phase = "logged"
                /\ time = burst.last + ZOOM_LOG_DEBOUNCE_MS
                /\ entry.timestamp = time
                /\ entry.details.previousScale = burst.start
                /\ entry.details.scale = viewer.scale
                /\ viewer.scale \in minScale..MAX_SCALE
                /\ entry.action = (IF viewer.scale > burst.start THEN "zoom_in" ELSE "zoom_out")
                /\ \A i \in 1..Len(viewer.logs) :
                      viewer.logs[i].action = "reset"
                        => viewer.logs[i].timestamp <= burst.first
        /\ (viewer'.logs # viewer.logs /\ viewer'.logs[Len(viewer'.logs)].action = "reset")
             => /\ timers'.pending = {}
                /\ burst'.phase # "open"
                /\ viewer'.scale = initialScale ]_vars

\* three calls 100 ms and 200 ms apart took the scale from 100 to 2000, the
\* last one asking for more than the maximum, and 300 ms after the last call
\* the log got its one entry
C30_Witness ==
    /\ burst.phase = "logged"
    /\ burst.first + 300 = burst.last
    /\ timers.created = 3
    /\ Len(viewer.logs) = 1
    /\ viewer.logs[1] = [timestamp |-> burst.last + ZOOM_LOG_DEBOUNCE_MS, action |-> "zoom_in",
                         details |-> [previousScale |-> initialScale, scale |-> MAX_SCALE]]

\* the HTTP status that goes with an error code
StatusOfCode ==
    [c \in {"VALIDATION_ERROR", "NOT_FOUND", "FILE_NOT_FOUND", "PROJECT_NOT_FOUND",
            "PROJECT_ALREADY_EXISTS", "INTERNAL_ERROR"} |->
        CASE c = "VALIDATION_ERROR" -> 400
          [] c \in {"NOT_FOUND", "FILE_NOT_FOUND", "PROJECT_NOT_FOUND"} -> 404
          [] c = "PROJECT_ALREADY_EXISTS" -> 409
          [] c = "INTERNAL_ERROR" -> 500]

\* C25: every error response the service sends carries one of its error
\* codes with the one status of that code: VALIDATION_ERROR with 400, the
\* NOT_FOUND codes with 404, PROJECT_ALREADY_EXISTS with 409, INTERNAL_ERROR
\* with 500; a response without an error code has a success status.
C25_OneStatusPerCode ==
    last # NoResponse =>
        IF last.code = ""
        THEN last.status \in {200, 201}
        ELSE /\ last.code \in DOMAIN StatusOfCode
             /\ last.status = StatusOfCode[last.code]

\* a confirm whose collaborator was throttled was answered INTERNAL_ERROR
\* with 500
C25_Witness ==
    /\ last.op = "confirmUpload"
    /\ last.code = "INTERNAL_ERROR"
    /\ last.err \in CollabErrors
    /\ last.status = 500

====
